---- MODULE Spec2Model ----
(***************************************************************************)
(* Model of the search-configuration pipeline of foundry-iq-demo:          *)
(*   scripts/sanitize_data.py              (Sanitizer)                     *)
(*   infra/hooks/configure_search_objects.py (Restorer)                    *)
(*   scripts/dump_az_search.py             (Graph Exporter, resolver)      *)
(*                                                                         *)
(* Text.  A Python string is a sequence of chunks; its text is the         *)
(* concatenation of the chunks.  The separators "-", "_" and "." of a key  *)
(* are chunks of their own, so str.replace(sep, "") is the removal of the  *)
(* chunks equal to sep, and str.lower() is chunk-wise (Lower).  A URL is   *)
(* chunked as scheme, host label, domain suffix, rest.  Every string the   *)
(* model uses has one chunking, so equality of chunk sequences is equality *)
(* of the Python strings.                                                  *)
(*                                                                         *)
(* JSON.  A value is a record tagged by t: "dict" (items: sequence of      *)
(* [k, v], insertion order), "list" (items), "str" (s), "num" (n),         *)
(* "bool" (b), "null".                                                     *)
(***************************************************************************)
EXTENDS Integers, Sequences, FiniteSets, TLC

VARIABLES
    pc,           \* position of the running program
    data,         \* sanitize_file: the parsed document (json.load)
    sanitized,    \* sanitize_file: the result of the tree walk
    resanitized,  \* the result of a second Sanitizer run over its own output
    dir,          \* the directory the document is stored in
    creds,        \* Restorer: the credentials collected in step 3 of main
    stored,       \* Restorer: the document read from the store (json.load)
    restored,     \* Restorer: the document after placeholder replacement
    svc,          \* Exporter: the documents of the search service, by node
    failing,      \* Exporter: the nodes whose GET is answered with an error
    kb_names,     \* Exporter: the root names (args.kb)
    kbi,          \* Exporter: position of the loop over kb_names
    ks_refs,      \* Exporter: the knowledgeSources entries still to visit
    ks,           \* Exporter: the knowledge source given to the resolver
    resources,    \* Exporter: the resolver's result
    synonymMaps,  \* Exporter: the synonym maps of the index still to visit
    seen,         \* Exporter: the six seen_* sets
    fetched,      \* Exporter: GET requests sent, per node
    dumped,       \* Exporter: files written (dump), per node
    counts,       \* Exporter: the counts printed at the end
    files,        \* the configuration store: the content of each stored file
    dry_run,      \* Sanitizer run: args.dry_run
    todo,         \* the files the running loop has not yet visited, in order
    total_count,  \* Sanitizer run: files visited
    modified_count, \* Sanitizer run: files for which sanitize_file returned True
    returned,     \* Sanitizer run: the value sanitize_file returned, per call
    puts,         \* Restorer run: the deploy calls, in order
    exit_code     \* Restorer run: the status of sys.exit, -1 while running

sanitizerVars == <<data, sanitized, resanitized>>

restorerVars == <<dir, creds, stored, restored>>

exporterVars ==
    <<svc, failing, kb_names, kbi, ks_refs, ks, resources, synonymMaps, seen,
      fetched, dumped, counts>>

storeVars ==
    <<files, dry_run, todo, total_count, modified_count, returned, puts, exit_code>>

vars == <<pc, sanitizerVars, restorerVars, exporterVars, storeVars>>

\* the Exporter has not been started
ExporterIdle ==
    /\ svc = <<>> /\ failing = {} /\ kb_names = <<>> /\ kbi = 0 /\ ks_refs = <<>>
    /\ ks = [t |-> "none"] /\ resources = [t |-> "none"] /\ synonymMaps = <<>>
    /\ seen = <<>> /\ fetched = <<>> /\ dumped = <<>> /\ counts = <<>>

\* no run over the configuration store has been started
StoreIdle ==
    /\ files = <<>> /\ dry_run = FALSE /\ todo = <<>> /\ total_count = 0
    /\ modified_count = 0 /\ returned = <<>> /\ puts = <<>> /\ exit_code = -1

\* neither the Sanitizer nor the Restorer has been started
PipelineIdle ==
    /\ data = [t |-> "none"] /\ sanitized = [t |-> "none"]
    /\ resanitized = [t |-> "none"] /\ dir = "any" /\ creds = [t |-> "none"]
    /\ stored = [t |-> "none"] /\ restored = [t |-> "none"]

-----------------------------------------------------------------------------
(* JSON values *)

Str(s)   == [t |-> "str", s |-> s]
Num(n)   == [t |-> "num", n |-> n]
Bool(b)  == [t |-> "bool", b |-> b]
Null     == [t |-> "null"]
Dict(es) == [t |-> "dict", items |-> es]
List(es) == [t |-> "list", items |-> es]
KV(k, v) == [k |-> k, v |-> v]

\* the value of a variable that holds no document yet
NoDoc == [t |-> "none"]

\* the value of creds where no credentials are collected
NoCreds == [t |-> "none"]

IsStr(v)  == v.t = "str"
IsDict(v) == v.t = "dict"
IsList(v) == v.t = "list"

-----------------------------------------------------------------------------
(* Text *)

\* str.lower() on one chunk, for the chunks that carry an upper-case letter
Lower(c) ==
    CASE c = "API"       -> "api"
      [] c = "KEY"       -> "key"
      [] c = "Key"       -> "key"
      [] c = "String"    -> "string"
      [] c = "Name"      -> "name"
      [] c = "Uri"       -> "uri"
      [] c = "Container" -> "container"
      [] c = "HTTPS://"  -> "https://"
      [] c = "Acct"      -> "acct"
      [] c = ".OpenAI.Azure.COM" -> ".openai.azure.com"
      [] OTHER           -> c

RECURSIVE Text(_)
Text(s) == IF s = <<>> THEN "" ELSE s[1] \o Text(Tail(s))

RECURSIVE Replace(_, _)
\* s.replace(sep, "")
Replace(s, sep) ==
    IF s = <<>> THEN <<>>
    ELSE IF s[1] = sep THEN Replace(Tail(s), sep)
    ELSE <<s[1]>> \o Replace(Tail(s), sep)

\* s.lower()
LowerStr(s) == [i \in 1..Len(s) |-> Lower(s[i])]

-----------------------------------------------------------------------------
(* scripts/sanitize_data.py: tables *)

\* one entry per regular expression: "https://", one or more characters of
\* [a-zA-Z0-9\-], the escaped domain, then "/?[^\s\"]*" (which also matches
\* the empty rest)
AZURE_URL_PATTERNS ==
    << [scheme |-> "https://", domain |-> ".search.windows.net"],
       [scheme |-> "https://", domain |-> ".openai.azure.com"],
       [scheme |-> "https://", domain |-> ".cognitiveservices.azure.com"],
       [scheme |-> "https://", domain |-> ".blob.core.windows.net"],
       [scheme |-> "https://", domain |-> ".documents.azure.com"] >>

\* the chunks that are one or more characters of [a-zA-Z0-9\-]
HostLabel == {"acct", "Acct", "oldoai", "newoai", "aisvc", "example"}

SENSITIVE_KEYS ==
    { <<"apikey">>, <<"api", "_", "key">>, <<"key">>, <<"connectionstring">>,
      <<"connection", "_", "string">>, <<"secret">>, <<"password">>,
      <<"token">>, <<"accesskey">>, <<"primarykey">>, <<"secondarykey">> }

URL_KEYS ==
    { <<"@odata", ".", "context">>, <<"resourceuri">>,
      <<"resource", "_", "uri">>, <<"uri">>, <<"url">>, <<"endpoint">>,
      <<"subdomainurl">> }

REDACTED_PLACEHOLDER  == <<"<REDACTED>">>
URL_PLACEHOLDER       == <<"<AZURE_ENDPOINT_PLACEHOLDER>">>
CONTAINER_PLACEHOLDER == <<"<BLOB_CONTAINER_PLACEHOLDER>">>

LEGACY_CONTAINER_NAMES == { <<"kr-demos">>, <<"sample-documents">>, <<"foundry-iq-data">> }

-----------------------------------------------------------------------------
(* scripts/sanitize_data.py: the tree walk *)

\* mutant: the key is compared without str.lower()
should_redact_key_CaseSensitive(key) ==
    LET key_lower == Replace(Replace(key, "-"), "_")
    IN  Text(key_lower) \in { Text(Replace(k, "_")) : k \in SENSITIVE_KEYS }

should_redact_key(key) ==
    LET key_lower == Replace(Replace(LowerStr(key), "-"), "_")
    IN  Text(key_lower) \in { Text(Replace(k, "_")) : k \in SENSITIVE_KEYS }

should_redact_url_key(key) ==
    LET key_lower == Replace(Replace(LowerStr(key), "-"), "_")
    IN  Text(key_lower) \in { Text(Replace(Replace(k, "_"), ".")) : k \in URL_KEYS }

\* re.match(pattern, value, re.IGNORECASE): a match at the start of value
re_match(pattern, value) ==
    /\ Len(value) >= 3
    /\ Lower(value[1]) = pattern.scheme
    /\ value[2] \in HostLabel
    /\ Lower(value[3]) = pattern.domain

is_azure_url(value) ==
    /\ IsStr(value)
    /\ \E i \in 1..Len(AZURE_URL_PATTERNS) : re_match(AZURE_URL_PATTERNS[i], value.s)

\* mutant: the URL shape of the value is looked at before the key
sanitize_value_UrlFirst(key, value) ==
    IF value = Null THEN Null
    ELSE IF IsStr(value) /\ is_azure_url(value)
         THEN Str(URL_PLACEHOLDER)
    ELSE IF should_redact_key(key)
         THEN IF IsStr(value) /\ value.s # <<>> /\ value.s # <<"null">>
              THEN Str(REDACTED_PLACEHOLDER)
              ELSE value
    ELSE value

sanitize_value(key, value) ==
    IF value = Null THEN Null
    ELSE IF should_redact_key(key)
         THEN IF IsStr(value) /\ value.s # <<>> /\ value.s # <<"null">>
              THEN Str(REDACTED_PLACEHOLDER)
              ELSE value
    ELSE IF should_redact_url_key(key)
         THEN IF IsStr(value) /\ is_azure_url(value)
              THEN Str(URL_PLACEHOLDER)
              ELSE value
    ELSE IF IsStr(value) /\ is_azure_url(value)
         THEN Str(URL_PLACEHOLDER)
    ELSE value

RECURSIVE sanitize_dict(_, _)
RECURSIVE sanitize_list(_, _)

\* mutant: the two protocol metadata keys are dropped from every mapping
sanitize_dict_DropMetadata(d, parent_key) ==
    LET kept == SelectSeq(d.items,
                    LAMBDA e : e.k \notin { <<"@odata", ".", "context">>,
                                            <<"@odata", ".", "etag">> })
        entry(e) ==
            IF IsDict(e.v) THEN KV(e.k, sanitize_dict(e.v, e.k))
            ELSE IF IsList(e.v) THEN KV(e.k, sanitize_list(e.k, e.v))
            ELSE KV(e.k, sanitize_value(e.k, e.v))
    IN  Dict([i \in 1..Len(kept) |-> entry(kept[i])])

\* mutant: null elements are left out of the result
sanitize_list_SkipNull(parent_key, l) ==
    LET kept == SelectSeq(l.items, LAMBDA item : item # Null)
        element(item) ==
            IF IsDict(item) THEN sanitize_dict(item, parent_key)
            ELSE IF IsList(item) THEN sanitize_list(parent_key, item)
            ELSE sanitize_value(parent_key, item)
    IN  List([i \in 1..Len(kept) |-> element(kept[i])])

sanitize_dict(d, parent_key) ==
    LET entry(e) ==
            LET key       == e.k
                value     == e.v
                key_lower == Text(LowerStr(key))
            IN  IF IsDict(value) THEN KV(key, sanitize_dict(value, key))
                ELSE IF IsList(value) THEN KV(key, sanitize_list(key, value))
                ELSE IF /\ key_lower \in {"name", "containername"}
                        /\ \/ Text(LowerStr(parent_key)) = "container"
                           \/ key_lower = "containername"
                        /\ IsStr(value)
                        /\ value.s \in LEGACY_CONTAINER_NAMES
                     THEN KV(key, Str(CONTAINER_PLACEHOLDER))
                ELSE KV(key, sanitize_value(key, value))
    IN  Dict([i \in 1..Len(d.items) |-> entry(d.items[i])])

sanitize_list(parent_key, l) ==
    LET element(item) ==
            IF IsDict(item) THEN sanitize_dict(item, parent_key)
            ELSE IF IsList(item) THEN sanitize_list(parent_key, item)
            ELSE sanitize_value(parent_key, item)
    IN  List([i \in 1..Len(l.items) |-> element(l.items[i])])

\* sanitize_file, line 157: the walk starts with the empty parent key
sanitize(d) == IF IsDict(d) THEN sanitize_dict(d, <<>>) ELSE sanitize_list(<<>>, d)

-----------------------------------------------------------------------------
(* Documents given to the Sanitizer *)

\* bounds of the generated documents
MaxListLen == 2
MaxEntries == 2

\* keys, chunked
K_apiKey        == <<"api", "Key">>
K_API_KEY       == <<"API", "_", "KEY">>
K_endpoint      == <<"endpoint">>
K_odata_context == <<"@odata", ".", "context">>
K_odata_etag    == <<"@odata", ".", "etag">>
K_containerName == <<"container", "Name">>
K_name          == <<"name">>
K_container     == <<"Container">>
K_description   == <<"description">>

SanKeys ==
    { K_apiKey, K_API_KEY, K_endpoint, K_odata_context, K_odata_etag,
      K_containerName, K_name, K_container, K_description }

\* string values
S_secret      == <<"abc123">>
S_empty       == <<>>
S_null        == <<"null">>
S_searchUrl   == <<"https://", "acct", ".search.windows.net", "/$metadata#knowledgebases/$entity">>
S_upperUrl    == <<"HTTPS://", "Acct", ".OpenAI.Azure.COM">>
S_otherUrl    == <<"https://", "example", ".org", "/docs">>
S_embeddedUrl == <<"see ", "https://", "acct", ".search.windows.net">>
S_etag        == <<"\"0x8DE\"">>
S_legacy      == <<"kr-demos">>
S_container   == <<"my-data">>

SanStrings ==
    { S_secret, S_empty, S_null, S_searchUrl, S_upperUrl, S_otherUrl,
      S_embeddedUrl, S_etag, S_legacy, S_container,
      REDACTED_PLACEHOLDER, URL_PLACEHOLDER, CONTAINER_PLACEHOLDER }

SanLeaves == { Str(s) : s \in SanStrings } \cup { Null, Num(42), Bool(TRUE) }

\* the leaves used inside lists and in the documents of several entries
FewLeaves ==
    { Str(S_secret), Str(S_searchUrl), Str(S_legacy), Str(URL_PLACEHOLDER), Null }

LeafLists == { List(l) : l \in UNION { [1..n -> FewLeaves] : n \in 1..MaxListLen } }

OneEntry(keys, values) == { Dict(<<KV(k, v)>>) : k \in keys, v \in values }

\* depth 1: a leaf, a list of leaves, a list of a list or of a mapping, a mapping
SanLevel1 ==
    SanLeaves \cup LeafLists
      \cup { List(<<l>>) : l \in { List(<<x>>) : x \in FewLeaves } }
      \cup { List(<<d>>) : d \in OneEntry(SanKeys, FewLeaves) }
      \cup OneEntry(SanKeys, SanLeaves)

\* mappings of 2..MaxEntries entries with distinct keys, leaves as values
WideDicts ==
    LET keys == { K_apiKey, K_endpoint, K_odata_etag, K_containerName, K_description }
    IN  { Dict(es) : es \in
            { f \in UNION { [1..n -> { KV(k, v) : k \in keys, v \in FewLeaves }]
                              : n \in 2..MaxEntries }
                : \A i, j \in DOMAIN f : i # j => f[i].k # f[j].k } }

SanDocs ==
    OneEntry(SanKeys, SanLevel1)
      \cup OneEntry(SanKeys, OneEntry(SanKeys, SanLeaves \cup LeafLists))
      \cup WideDicts
      \cup LeafLists

-----------------------------------------------------------------------------
(* The Sanitizer: sanitize_file without --dry-run, run once and once more *)

InitSanitize ==
    /\ pc = "loaded"
    /\ data \in SanDocs
    /\ sanitized = NoDoc
    /\ resanitized = NoDoc
    /\ dir = "any"
    /\ creds = NoCreds
    /\ stored = NoDoc
    /\ restored = NoDoc
    /\ ExporterIdle
    /\ StoreIdle

\* sanitize_file, line 157
SanitizeDoc ==
    /\ pc = "loaded"
    /\ sanitized' = sanitize(data)
    /\ pc' = "sanitized"
    /\ UNCHANGED <<data, resanitized, restorerVars, exporterVars, storeVars>>

\* a second run of the Sanitizer reads the file the first run wrote
SanitizeAgain ==
    /\ pc = "sanitized"
    /\ resanitized' = sanitize(sanitized)
    /\ pc' = "resanitized"
    /\ UNCHANGED <<data, sanitized, restorerVars, exporterVars, storeVars>>

NextSanitize == SanitizeDoc \/ SanitizeAgain

SpecSanitize == InitSanitize /\ [][NextSanitize]_vars

-----------------------------------------------------------------------------
(* Python mappings, as infra/hooks/configure_search_objects.py uses them *)

\* key in d
Has(d, key) == \E i \in 1..Len(d.items) : d.items[i].k = key

\* d.get(key): None when the key is absent
Get(d, key) ==
    IF Has(d, key)
    THEN d.items[CHOOSE i \in 1..Len(d.items) : d.items[i].k = key].v
    ELSE Null

\* d[key] = value: in place when the key is present, appended otherwise
Set(d, key, value) ==
    IF Has(d, key)
    THEN Dict([i \in 1..Len(d.items) |->
                  IF d.items[i].k = key THEN KV(key, value) ELSE d.items[i]])
    ELSE Dict(Append(d.items, KV(key, value)))

\* d.pop(key, None)
Pop(d, key) == Dict(SelectSeq(d.items, LAMBDA e : e.k # key))

\* bool(value)
Truthy(v) ==
    CASE v.t = "null" -> FALSE
      [] v.t = "str"  -> v.s # <<>>
      [] v.t = "num"  -> v.n # 0
      [] v.t = "bool" -> v.b
      [] OTHER        -> v.items # <<>>

\* the outcome of a call that raised
Raised == [t |-> "raised"]

-----------------------------------------------------------------------------
(* infra/hooks/configure_search_objects.py: placeholder replacement *)

\* keys the Restorer reads; each is one chunk but those the Sanitizer's
\* tables name
K_azureBlobParameters         == <<"azureBlobParameters">>
K_indexedOneLakeParameters    == <<"indexedOneLakeParameters">>
K_indexedSharePointParameters == <<"indexedSharePointParameters">>
K_connectionString            == <<"connection", "String">>
K_ingestionParameters         == <<"ingestionParameters">>
K_embeddingModel              == <<"embeddingModel">>
K_chatCompletionModel         == <<"chatCompletionModel">>
K_azureOpenAIParameters       == <<"azureOpenAIParameters">>
K_resourceUri                 == <<"resource", "Uri">>
K_aiServices                  == <<"aiServices">>
K_uri                         == <<"uri">>
K_models                      == <<"models">>
K_inferenceParameters         == <<"inferenceParameters">>

\* mutant: the key is set whatever the stored value is
ReplaceAoai_AnyKey(aoai_params, openai_endpoint, openai_key) ==
    LET a1 == IF Get(aoai_params, K_resourceUri) = Str(URL_PLACEHOLDER)
              THEN Set(aoai_params, K_resourceUri, openai_endpoint)
              ELSE aoai_params
    IN  Set(a1, K_apiKey, openai_key)

\* the pair of tests every azureOpenAIParameters block gets
\* (lines 190-193, 200-203, 226-229, 240-243, 268-271, 277-280)
ReplaceAoai(aoai_params, openai_endpoint, openai_key) ==
    LET a1 == IF Get(aoai_params, K_resourceUri) = Str(URL_PLACEHOLDER)
              THEN Set(aoai_params, K_resourceUri, openai_endpoint)
              ELSE aoai_params
    IN  IF Get(a1, K_apiKey) = Str(REDACTED_PLACEHOLDER)
        THEN Set(a1, K_apiKey, openai_key)
        ELSE a1

\* if model_key in ingest_params and ingest_params[model_key]: ... the
\* azureOpenAIParameters of that model (lines 186-193, 196-203, 222-229, 236-243)
ReplaceModel(ingest_params, model_key, openai_endpoint, openai_key) ==
    IF Has(ingest_params, model_key) /\ Truthy(Get(ingest_params, model_key))
    THEN LET model == Get(ingest_params, model_key)
         IN  IF Has(model, K_azureOpenAIParameters)
                  /\ Truthy(Get(model, K_azureOpenAIParameters))
             THEN Set(ingest_params, model_key,
                      Set(model, K_azureOpenAIParameters,
                          ReplaceAoai(Get(model, K_azureOpenAIParameters),
                                      openai_endpoint, openai_key)))
             ELSE ingest_params
    ELSE ingest_params

\* lines 206-215
ReplaceAiServices(ingest_params, ai_services_endpoint, ai_services_key) ==
    IF Has(ingest_params, K_aiServices) /\ Truthy(Get(ingest_params, K_aiServices))
    THEN IF Truthy(ai_services_endpoint) /\ Truthy(ai_services_key)
         THEN LET ai_svc == Get(ingest_params, K_aiServices)
                  s1 == IF Get(ai_svc, K_uri) = Str(URL_PLACEHOLDER)
                        THEN Set(ai_svc, K_uri, ai_services_endpoint)
                        ELSE ai_svc
                  s2 == IF Get(s1, K_apiKey) = Str(REDACTED_PLACEHOLDER)
                        THEN Set(s1, K_apiKey, ai_services_key)
                        ELSE s1
              IN  Set(ingest_params, K_aiServices, s2)
         ELSE Set(ingest_params, K_aiServices, Null)
    ELSE ingest_params

\* mutant: the container name is set whatever the stored value is
ReplaceBlob_AnyContainer(source_data, c) ==
    IF Has(source_data, K_azureBlobParameters)
         /\ Truthy(Get(source_data, K_azureBlobParameters))
    THEN LET blob_params == Get(source_data, K_azureBlobParameters)
             b1 == IF Get(blob_params, K_connectionString)
                        \in { Str(REDACTED_PLACEHOLDER), Null, Str(<<>>) }
                   THEN Set(blob_params, K_connectionString, c.storage_connection_string)
                   ELSE blob_params
             b2 == Set(b1, K_containerName, c.blob_container)
             b3 == IF Has(b2, K_ingestionParameters)
                        /\ Truthy(Get(b2, K_ingestionParameters))
                   THEN LET i0 == Get(b2, K_ingestionParameters)
                            i1 == ReplaceModel(i0, K_embeddingModel,
                                               c.openai_endpoint, c.openai_key)
                            i2 == ReplaceModel(i1, K_chatCompletionModel,
                                               c.openai_endpoint, c.openai_key)
                            i3 == ReplaceAiServices(i2, c.ai_services_endpoint,
                                                    c.ai_services_key)
                        IN  Set(b2, K_ingestionParameters, i3)
                   ELSE b2
         IN  Set(source_data, K_azureBlobParameters, b3)
    ELSE source_data

\* lines 170-215
ReplaceBlob(source_data, c) ==
    IF Has(source_data, K_azureBlobParameters)
         /\ Truthy(Get(source_data, K_azureBlobParameters))
    THEN LET blob_params == Get(source_data, K_azureBlobParameters)
             b1 == IF Get(blob_params, K_connectionString)
                        \in { Str(REDACTED_PLACEHOLDER), Null, Str(<<>>) }
                   THEN Set(blob_params, K_connectionString, c.storage_connection_string)
                   ELSE blob_params
             b2 == IF Get(b1, K_containerName) = Str(CONTAINER_PLACEHOLDER)
                   THEN Set(b1, K_containerName, c.blob_container)
                   ELSE b1
             b3 == IF Has(b2, K_ingestionParameters)
                        /\ Truthy(Get(b2, K_ingestionParameters))
                   THEN LET i0 == Get(b2, K_ingestionParameters)
                            i1 == ReplaceModel(i0, K_embeddingModel,
                                               c.openai_endpoint, c.openai_key)
                            i2 == ReplaceModel(i1, K_chatCompletionModel,
                                               c.openai_endpoint, c.openai_key)
                            i3 == ReplaceAiServices(i2, c.ai_services_endpoint,
                                                    c.ai_services_key)
                        IN  Set(b2, K_ingestionParameters, i3)
                   ELSE b2
         IN  Set(source_data, K_azureBlobParameters, b3)
    ELSE source_data

\* lines 218-229 (params_key = indexedOneLakeParameters) and 232-243
\* (params_key = indexedSharePointParameters): the embedding model only
ReplaceIndexed(source_data, params_key, c) ==
    IF Has(source_data, params_key) /\ Truthy(Get(source_data, params_key))
    THEN LET params == Get(source_data, params_key)
         IN  IF Has(params, K_ingestionParameters)
                  /\ Truthy(Get(params, K_ingestionParameters))
             THEN Set(source_data, params_key,
                      Set(params, K_ingestionParameters,
                          ReplaceModel(Get(params, K_ingestionParameters),
                                       K_embeddingModel,
                                       c.openai_endpoint, c.openai_key)))
             ELSE source_data
    ELSE source_data

\* mutant: the concurrency tag is left in the document
replace_placeholders_in_knowledge_source_KeepEtag(source_data, c) ==
    LET s0 == Pop(source_data, K_odata_context)
        s1 == ReplaceBlob(s0, c)
        s2 == ReplaceIndexed(s1, K_indexedOneLakeParameters, c)
    IN  ReplaceIndexed(s2, K_indexedSharePointParameters, c)

\* c: the credentials main passes (lines 524-532)
replace_placeholders_in_knowledge_source(source_data, c) ==
    LET s0 == Pop(Pop(source_data, K_odata_context), K_odata_etag)
        s1 == ReplaceBlob(s0, c)
        s2 == ReplaceIndexed(s1, K_indexedOneLakeParameters, c)
    IN  ReplaceIndexed(s2, K_indexedSharePointParameters, c)

\* lines 264-271
ReplaceModels(kb_data, c) ==
    IF Has(kb_data, K_models) /\ Truthy(Get(kb_data, K_models))
    THEN LET models == Get(kb_data, K_models).items
             one(model) ==
                 IF Has(model, K_azureOpenAIParameters)
                      /\ Truthy(Get(model, K_azureOpenAIParameters))
                 THEN Set(model, K_azureOpenAIParameters,
                          ReplaceAoai(Get(model, K_azureOpenAIParameters),
                                      c.openai_endpoint, c.openai_key))
                 ELSE model
         IN  Set(kb_data, K_models, List([i \in 1..Len(models) |-> one(models[i])]))
    ELSE kb_data

\* lines 274-280: the block is read with .get without a test that it is a
\* mapping, which raises AttributeError on null
replace_placeholders_in_knowledge_base(kb_data, c) ==
    LET k0 == Pop(Pop(kb_data, K_odata_context), K_odata_etag)
        k1 == ReplaceModels(k0, c)
    IN  IF Has(k1, K_inferenceParameters) /\ Truthy(Get(k1, K_inferenceParameters))
        THEN LET inference == Get(k1, K_inferenceParameters)
             IN  IF Has(inference, K_azureOpenAIParameters)
                 THEN IF IsDict(Get(inference, K_azureOpenAIParameters))
                      THEN Set(k1, K_inferenceParameters,
                               Set(inference, K_azureOpenAIParameters,
                                   ReplaceAoai(Get(inference, K_azureOpenAIParameters),
                                               c.openai_endpoint, c.openai_key)))
                      ELSE Raised
                 ELSE k1
        ELSE k1

-----------------------------------------------------------------------------
(* Documents given to the Restorer: knowledge sources and knowledge bases *)

\* bound of the models array of a knowledge base
MaxModels == 2

S_oldOpenAI == <<"https://", "oldoai", ".openai.azure.com">>
S_oldAi     == <<"https://", "aisvc", ".cognitiveservices.azure.com", "/">>
S_oldConn   == <<"DefaultEndpointsProtocol=https;AccountName=old;AccountKey=oldkey;EndpointSuffix=core.windows.net">>

\* an azureOpenAIParameters block, as exported ("live") or as stored
AoaiBlock(v) ==
    Dict(<< KV(K_resourceUri,
               Str(IF v = "live" THEN S_oldOpenAI ELSE URL_PLACEHOLDER)),
            KV(<<"deploymentId">>, Str(<<"gpt-4o">>)),
            KV(K_apiKey,
               Str(IF v = "live" THEN S_secret ELSE REDACTED_PLACEHOLDER)) >>)

ModelBlock(v) ==
    IF v = "null" THEN Null
    ELSE Dict(<< KV(<<"kind">>, Str(<<"azureOpenAI">>)),
                 KV(K_azureOpenAIParameters, AoaiBlock(v)) >>)

AiServicesBlock(v) ==
    CASE v = "null"        -> Null
      [] v = "empty"       -> Dict(<<>>)
      [] v = "live"        -> Dict(<< KV(K_uri, Str(S_oldAi)), KV(K_apiKey, Str(S_secret)) >>)
      [] v = "keyless"     -> Dict(<< KV(K_uri, Str(S_oldAi)), KV(K_apiKey, Null) >>)
      [] v = "placeholder" -> Dict(<< KV(K_uri, Str(URL_PLACEHOLDER)),
                                      KV(K_apiKey, Str(REDACTED_PLACEHOLDER)) >>)

\* the entries an option of "absent" leaves out
Opt(key, v, block) == IF v = "absent" THEN <<>> ELSE <<KV(key, block)>>

ODataEntries(with) ==
    IF with THEN << KV(K_odata_context, Str(S_searchUrl)), KV(K_odata_etag, Str(S_etag)) >>
    ELSE <<>>

ConnString(v) ==
    CASE v = "null"        -> Null
      [] v = "empty"       -> Str(<<>>)
      [] v = "live"        -> Str(S_oldConn)
      [] v = "placeholder" -> Str(REDACTED_PLACEHOLDER)

ContainerName(v) ==
    CASE v = "legacy"      -> Str(S_legacy)
      [] v = "other"       -> Str(S_container)
      [] v = "placeholder" -> Str(CONTAINER_PLACEHOLDER)

IngestionBlock(o) ==
    Dict(Opt(K_embeddingModel, o.embed, ModelBlock(o.embed))
           \o Opt(K_chatCompletionModel, o.chat, ModelBlock(o.chat))
           \o Opt(K_aiServices, o.ai, AiServicesBlock(o.ai)))

ParamsKey(kind) ==
    CASE kind = "azureBlob"         -> K_azureBlobParameters
      [] kind = "indexedOneLake"    -> K_indexedOneLakeParameters
      [] kind = "indexedSharePoint" -> K_indexedSharePointParameters

KnowledgeSourceDoc(o) ==
    Dict(ODataEntries(o.odata)
           \o << KV(K_name, Str(<<"ks1">>)), KV(<<"kind">>, Str(<<o.kind>>)) >>
           \o << KV(ParamsKey(o.kind),
                    Dict((IF o.kind = "azureBlob"
                          THEN Opt(K_connectionString, o.conn, ConnString(o.conn))
                                 \o <<KV(K_containerName, ContainerName(o.cont))>>
                          ELSE <<>>)
                         \o <<KV(K_ingestionParameters, IngestionBlock(o))>>)) >>)

ModelOptions == {"absent", "null", "live", "placeholder"}

BlobOptions ==
    [ kind : {"azureBlob"}, odata : BOOLEAN,
      conn : {"absent", "null", "empty", "live", "placeholder"},
      cont : {"legacy", "other", "placeholder"},
      embed : {"absent", "live", "placeholder"}, chat : ModelOptions,
      ai : {"absent", "null", "empty", "live", "keyless", "placeholder"} ]

IndexedOptions ==
    [ kind : {"indexedOneLake", "indexedSharePoint"}, odata : BOOLEAN,
      conn : {"absent"}, cont : {"other"},
      embed : ModelOptions, chat : ModelOptions,
      ai : {"absent", "live", "placeholder"} ]

KnowledgeSourceDocs == { KnowledgeSourceDoc(o) : o \in BlobOptions \cup IndexedOptions }

InferenceBlock(v) ==
    CASE v = "null"     -> Null
      [] v = "noparams" -> Dict(<< KV(K_azureOpenAIParameters, Null) >>)
      [] OTHER          -> Dict(<< KV(K_azureOpenAIParameters, AoaiBlock(v)) >>)

KnowledgeBaseDoc(o) ==
    Dict(ODataEntries(o.odata)
           \o << KV(K_name, Str(<<"kb1">>)),
                 KV(<<"knowledgeSources">>, List(<< Dict(<< KV(K_name, Str(<<"ks1">>)) >>) >>)) >>
           \o (IF o.models = <<"absent">> THEN <<>>
               ELSE << KV(K_models,
                          IF o.models = <<"null">> THEN Null
                          ELSE List([i \in 1..Len(o.models) |->
                                       IF o.models[i] = "noparams"
                                       THEN Dict(<< KV(<<"kind">>, Str(<<"azureOpenAI">>)),
                                                    KV(K_azureOpenAIParameters, Null) >>)
                                       ELSE ModelBlock(o.models[i])])) >>)
           \o Opt(K_inferenceParameters, o.inference, InferenceBlock(o.inference)))

KnowledgeBaseDocs ==
    { KnowledgeBaseDoc(o) : o \in
        [ odata : BOOLEAN,
          models : {<<"absent">>, <<"null">>}
                     \cup UNION { [1..n -> {"live", "placeholder", "noparams"}]
                                    : n \in 0..MaxModels },
          inference : {"absent", "null", "noparams", "live", "placeholder"} ] }

DEFAULT_BLOB_CONTAINER == <<"foundry-iq-data">>

S_newOpenAI == <<"https://", "newoai", ".openai.azure.com">>
S_newConn   == <<"DefaultEndpointsProtocol=https;AccountName=new;AccountKey=newkey;EndpointSuffix=core.windows.net">>
S_newAi     == <<"https://", "newoai", ".cognitiveservices.azure.com">>

\* what main collects in step 3 (lines 431-489); the AI-services pair is
\* optional, and either half may be None
CredentialBundles ==
    [ openai_endpoint : {Str(S_newOpenAI)},
      openai_key : {Str(<<"openai-key-1">>)},
      storage_connection_string : {Str(S_newConn)},
      blob_container : {Str(DEFAULT_BLOB_CONTAINER), Str(S_container)},
      ai_services_endpoint : {Str(S_newAi), Null},
      ai_services_key : {Str(<<"ai-key-1">>), Null} ]

FullBundle(c) == Truthy(c.ai_services_endpoint) /\ Truthy(c.ai_services_key)

-----------------------------------------------------------------------------
(* Sanitizer, then Restorer, over one stored document *)

InitRestore ==
    /\ pc = "loaded"
    /\ \/ dir = "knowledge-sources" /\ data \in KnowledgeSourceDocs
       \/ dir = "knowledge-bases" /\ data \in KnowledgeBaseDocs
    /\ creds \in CredentialBundles
    /\ sanitized = NoDoc
    /\ resanitized = NoDoc
    /\ stored = NoDoc
    /\ restored = NoDoc
    /\ ExporterIdle
    /\ StoreIdle

\* the file the Restorer reads: the Sanitizer's output when it has run, the
\* exported document otherwise
StoredFile == IF pc = "sanitized" THEN sanitized ELSE data

\* main, lines 519-532
RestoreKnowledgeSource ==
    /\ pc \in {"loaded", "sanitized"}
    /\ dir = "knowledge-sources"
    /\ stored' = StoredFile
    /\ restored' = replace_placeholders_in_knowledge_source(StoredFile, creds)
    /\ pc' = "restored"
    /\ UNCHANGED <<data, sanitized, resanitized, dir, creds, exporterVars, storeVars>>

\* main, lines 561-570
RestoreKnowledgeBase ==
    /\ pc \in {"loaded", "sanitized"}
    /\ dir = "knowledge-bases"
    /\ stored' = StoredFile
    /\ restored' = replace_placeholders_in_knowledge_base(StoredFile, creds)
    /\ pc' = "restored"
    /\ UNCHANGED <<data, sanitized, resanitized, dir, creds, exporterVars, storeVars>>

NextRestore == SanitizeDoc \/ RestoreKnowledgeSource \/ RestoreKnowledgeBase

SpecRestore == InitRestore /\ [][NextRestore]_vars

-----------------------------------------------------------------------------
(* scripts/dump_az_search.py: the dependency resolver *)

\* d.get(key, default)
GetDefault(d, key, default) == IF Has(d, key) THEN Get(d, key) ELSE default

NoResources ==
    [indexName |-> Null, indexerName |-> Null, dataSourceName |-> Null, skillsetName |-> Null]

\* mutant: every indexed kind reads azureBlobParameters
CreatedResources_BlobOnly(ksdoc, params_key) ==
    LET params  == GetDefault(ksdoc, K_azureBlobParameters, Dict(<<>>))
        created == IF Truthy(params)
                   THEN GetDefault(params, <<"createdResources">>, Dict(<<>>))
                   ELSE Dict(<<>>)
    IN  IF ~IsDict(created) THEN Raised
        ELSE [ indexName      |-> Get(created, <<"index">>),
               indexerName    |-> Get(created, <<"indexer">>),
               dataSourceName |-> Get(created, <<"datasource">>),
               skillsetName   |-> Get(created, <<"skillset">>) ]

\* lines 128-133, 137-142, 146-151: the names under params_key.createdResources;
\* created.get raises AttributeError where createdResources is null
CreatedResources(ksdoc, params_key) ==
    LET params  == GetDefault(ksdoc, params_key, Dict(<<>>))
        created == IF Truthy(params)
                   THEN GetDefault(params, <<"createdResources">>, Dict(<<>>))
                   ELSE Dict(<<>>)
    IN  IF ~IsDict(created) THEN Raised
        ELSE [ indexName      |-> Get(created, <<"index">>),
               indexerName    |-> Get(created, <<"indexer">>),
               dataSourceName |-> Get(created, <<"datasource">>),
               skillsetName   |-> Get(created, <<"skillset">>) ]

extract_resources_from_ks(ksdoc) ==
    LET kind == GetDefault(ksdoc, <<"kind">>, Str(<<>>))
    IN  IF kind = Str(<<"searchIndex">>)
        THEN LET params == GetDefault(ksdoc, <<"searchIndexParameters">>, Dict(<<>>))
             IN  IF Truthy(params)
                 THEN [NoResources EXCEPT !.indexName = Get(params, <<"searchIndexName">>)]
                 ELSE NoResources
        ELSE IF kind = Str(<<"azureBlob">>)
        THEN CreatedResources(ksdoc, K_azureBlobParameters)
        ELSE IF kind = Str(<<"indexedOneLake">>)
        THEN CreatedResources(ksdoc, K_indexedOneLakeParameters)
        ELSE IF kind = Str(<<"indexedSharePoint">>)
        THEN CreatedResources(ksdoc, K_indexedSharePointParameters)
        ELSE NoResources

-----------------------------------------------------------------------------
(* Knowledge sources given to the resolver *)

\* a createdResources block naming the four resources with suffix n
Created(n) ==
    Dict(<< KV(<<"index">>, Str(<<"idx", n>>)), KV(<<"indexer">>, Str(<<"idxr", n>>)),
            KV(<<"datasource">>, Str(<<"ds", n>>)), KV(<<"skillset">>, Str(<<"ss", n>>)) >>)

\* the parameter block of an indexed kind: absent, null, without
\* createdResources, with a null one, with an index only, or complete
IndexedParams(key, v, n) ==
    CASE v = "absent"      -> <<>>
      [] v = "null"        -> << KV(key, Null) >>
      [] v = "nocreated"   -> << KV(key, Dict(<< KV(K_containerName, Str(S_container)) >>)) >>
      [] v = "creatednull" -> << KV(key, Dict(<< KV(<<"createdResources">>, Null) >>)) >>
      [] v = "indexonly"   -> << KV(key, Dict(<< KV(<<"createdResources">>,
                                     Dict(<< KV(<<"index">>, Str(<<"idx", n>>)) >>)) >>)) >>
      [] v = "complete"    -> << KV(key, Dict(<< KV(<<"createdResources">>, Created(n)) >>)) >>

SearchIndexParams(v) ==
    CASE v = "absent" -> <<>>
      [] v = "null"   -> << KV(<<"searchIndexParameters">>, Null) >>
      [] v = "empty"  -> << KV(<<"searchIndexParameters">>, Dict(<<>>)) >>
      [] v = "named"  -> << KV(<<"searchIndexParameters">>,
                               Dict(<< KV(<<"searchIndexName">>, Str(<<"idx", "0">>)) >>)) >>

ResolverDoc(o) ==
    Dict(<< KV(K_name, Str(<<"ks1">>)) >>
           \o (IF o.kind = "absent" THEN <<>> ELSE << KV(<<"kind">>, Str(<<o.kind>>)) >>)
           \o SearchIndexParams(o.search)
           \o IndexedParams(K_azureBlobParameters, o.blob, "1")
           \o IndexedParams(K_indexedOneLakeParameters, o.onelake, "2")
           \o IndexedParams(K_indexedSharePointParameters, o.sharepoint, "3"))

SourceKinds ==
    { "searchIndex", "azureBlob", "indexedOneLake", "indexedSharePoint",
      "remoteSharePoint", "web", "futureKind", "absent" }

ResolverDocs ==
    { ResolverDoc(o) : o \in
        [ kind : SourceKinds,
          search : {"absent", "null", "empty", "named"},
          blob : {"absent", "null", "nocreated", "creatednull", "indexonly", "complete"},
          onelake : {"absent", "creatednull", "complete"},
          sharepoint : {"absent", "complete"} ] }

-----------------------------------------------------------------------------
(* The resolver applied to one knowledge source *)

InitResolver ==
    /\ pc = "resolve"
    /\ PipelineIdle
    /\ StoreIdle
    /\ svc = <<>> /\ failing = {} /\ kb_names = <<>> /\ kbi = 0 /\ ks_refs = <<>>
    /\ ks \in ResolverDocs
    /\ resources = NoDoc
    /\ synonymMaps = <<>> /\ seen = <<>> /\ fetched = <<>> /\ dumped = <<>>
    /\ counts = <<>>

\* main, line 218
Resolve ==
    /\ pc = "resolve"
    /\ resources' = extract_resources_from_ks(ks)
    /\ pc' = "resolved"
    /\ UNCHANGED <<sanitizerVars, restorerVars, svc, failing, kb_names, kbi, ks_refs,
                   ks, synonymMaps, seen, fetched, dumped, counts, storeVars>>

NextResolver == Resolve

SpecResolver == InitResolver /\ [][NextResolver]_vars

-----------------------------------------------------------------------------
(* scripts/dump_az_search.py: the search service and the export run *)

\* bound of the number of root names of a run
MaxRoots == 2

\* the sub-paths of the control plane (lines 67-92)
Kinds ==
    { "knowledgebases", "knowledgesources", "indexes", "indexers", "datasources",
      "skillsets", "synonymmaps" }

Names(kind) ==
    CASE kind = "knowledgebases"   -> {"kb1", "kb2", "kb9"}
      [] kind = "knowledgesources" -> {"ks1", "ks2", "ks9"}
      [] kind = "indexes"          -> {"idx1", "idx2"}
      [] kind = "indexers"         -> {"idxr1", "idxr2"}
      [] kind = "datasources"      -> {"ds1", "ds2"}
      [] kind = "skillsets"        -> {"ss1", "ss2"}
      [] kind = "synonymmaps"      -> {"sm1", "sm2"}

Nodes == UNION { { <<kind, name>> : name \in Names(kind) } : kind \in Kinds }

\* a resource name as the JSON string of a document
NameStr(name) ==
    CASE name = "kb1" -> <<"kb", "1">> [] name = "kb2" -> <<"kb", "2">>
      [] name = "kb9" -> <<"kb", "9">>
      [] name = "ks1" -> <<"ks", "1">> [] name = "ks2" -> <<"ks", "2">>
      [] name = "ks9" -> <<"ks", "9">>
      [] name = "sm1" -> <<"sm", "1">> [] name = "sm2" -> <<"sm", "2">>

KbDoc(name, sources) ==
    Dict(<< KV(K_name, Str(NameStr(name))),
            KV(<<"knowledgeSources">>,
               List([i \in 1..Len(sources) |->
                       Dict(<< KV(K_name, Str(NameStr(sources[i]))) >>)])) >>)

\* a knowledge source of the service: an azureBlob or indexedOneLake source
\* with its createdResources (suffix n; a null block for n = "null"), a
\* searchIndex source over idx<n>, or a web source
KsDoc(name, kind, n) ==
    Dict(<< KV(K_name, Str(NameStr(name))), KV(<<"kind">>, Str(<<kind>>)) >>
           \o (CASE kind = "searchIndex" ->
                      << KV(<<"searchIndexParameters">>,
                            Dict(<< KV(<<"searchIndexName">>, Str(<<"idx", n>>)) >>)) >>
                 [] kind = "web" -> <<>>
                 [] OTHER ->
                      << KV(ParamsKey(kind),
                            Dict(<< KV(<<"createdResources">>,
                                       IF n = "null" THEN Null ELSE Created(n)) >>)) >>))

IndexDoc(name, maps) ==
    Dict(<< KV(K_name, Str(name)),
            KV(<<"synonymMaps">>, List([i \in 1..Len(maps) |-> Str(NameStr(maps[i]))])) >>)

PlainDoc(name) == Dict(<< KV(K_name, Str(name)) >>)

\* the services of the model: kb1 -> ks1 (azureBlob: idx1, idxr1, ds1, ss1)
\* as in the kb1/ks1 scenario, with a second knowledge base and a second
\* knowledge source that share nodes with them
Service(o) ==
    [ n \in Nodes |->
        CASE n = <<"knowledgebases", "kb1">>   -> KbDoc("kb1", o.kb1)
          [] n = <<"knowledgebases", "kb2">>   -> KbDoc("kb2", o.kb2)
          [] n = <<"knowledgesources", "ks1">> -> KsDoc("ks1", "azureBlob", "1")
          [] n = <<"knowledgesources", "ks2">> -> KsDoc("ks2", o.ks2.kind, o.ks2.n)
          [] n = <<"indexes", "idx1">>         -> IndexDoc(<<"idx", "1">>, o.idx1)
          [] n = <<"indexes", "idx2">>         -> IndexDoc(<<"idx", "2">>, <<"sm1", "sm2">>)
          [] n[1] \in {"knowledgebases", "knowledgesources", "indexes"} -> NoDoc
          [] OTHER                             -> PlainDoc(<<n[2]>>) ]

ServiceOptions ==
    [ kb1  : { <<"ks1">>, <<"ks1", "ks2", "ks1">> },
      kb2  : { <<"ks1">>, <<"ks2", "ks9", "ks1">> },
      ks2  : { [kind |-> "searchIndex", n |-> "1"], [kind |-> "azureBlob", n |-> "1"],
               [kind |-> "indexedOneLake", n |-> "2"], [kind |-> "web", n |-> "0"],
               [kind |-> "indexedSharePoint", n |-> "null"] },
      idx1 : { <<>>, <<"sm1", "sm1">> } ]

\* at most one node is out of order: deleted from the service (its GET is
\* answered 404), or answering its GET with another error status
FaultyNodes ==
    { <<"knowledgebases", "kb2">>, <<"knowledgesources", "ks1">>, <<"indexes", "idx1">>,
      <<"indexers", "idxr1">>, <<"datasources", "ds1">>, <<"skillsets", "ss1">>,
      <<"synonymmaps", "sm1">> }

Without(service, node) == [ n \in Nodes |-> IF n = node THEN NoDoc ELSE service[n] ]

RootLists == UNION { [1..n -> Names("knowledgebases")] : n \in 1..MaxRoots }

\* http_get answering every error status as it answers 404
http_get_ErrorAsNotFound(kind, name) ==
    IF <<kind, name>> \in failing \/ <<kind, name>> \notin Nodes
       \/ svc[<<kind, name>>] = NoDoc
    THEN Null
    ELSE svc[<<kind, name>>]

\* http_get, lines 40-51: None on 404, the document on success;
\* raise_for_status raises on every other error status
http_get(kind, name) ==
    IF <<kind, name>> \in failing THEN Raised
    ELSE IF <<kind, name>> \notin Nodes \/ svc[<<kind, name>>] = NoDoc THEN Null
    ELSE svc[<<kind, name>>]

\* a JSON string as a resource name of the request path
PathName(v) == Text(v.s)

\* lines 206, 222, 230, 240, 250 and 260 without the test of the dedup set
Unseen_NoDedup(kind, name) == Truthy(name)

\* lines 206, 222, 230, 240, 250 and 260: "if x and x not in seen_x"
Unseen(kind, name) == Truthy(name) /\ PathName(name) \notin seen[kind]

CountGet(kind, name) ==
    fetched' = [fetched EXCEPT ![<<kind, name>>] = @ + 1]

\* dump, lines 54-57
CountDump(kind, name, found) ==
    dumped' = IF found THEN [dumped EXCEPT ![<<kind, name>>] = @ + 1] ELSE dumped

InitExport ==
    /\ pc = "roots"
    /\ PipelineIdle
    /\ StoreIdle
    /\ \E o \in ServiceOptions :
          \/ svc = Service(o) /\ failing = {}
          \/ \E f \in FaultyNodes :
                \/ svc = Without(Service(o), f) /\ failing = {}
                \/ svc = Service(o) /\ failing = {f}
    /\ kb_names \in RootLists
    /\ kbi = 1
    /\ ks_refs = <<>>
    /\ ks = NoDoc
    /\ resources = NoDoc
    /\ synonymMaps = <<>>
    /\ seen = [ k \in Kinds \ {"knowledgebases"} |-> {} ]
    /\ fetched = [ n \in Nodes |-> 0 ]
    /\ dumped = [ n \in Nodes |-> 0 ]
    /\ counts = <<>>

exportFrame == <<sanitizerVars, restorerVars, storeVars, svc, failing, kb_names, counts>>

\* lines 196-202
FetchKnowledgeBase ==
    /\ pc = "roots" /\ kbi <= Len(kb_names)
    /\ LET kb_name == kb_names[kbi]
           kb      == http_get("knowledgebases", kb_name)
       IN  /\ CountGet("knowledgebases", kb_name)
           /\ CountDump("knowledgebases", kb_name, kb # Raised /\ Truthy(kb))
           /\ IF kb = Raised
              THEN pc' = "crashed" /\ UNCHANGED <<kbi, ks_refs>>
              ELSE IF ~Truthy(kb)
              THEN pc' = "roots" /\ kbi' = kbi + 1 /\ UNCHANGED ks_refs
              ELSE /\ pc' = "sources"
                   /\ ks_refs' = GetDefault(kb, <<"knowledgeSources">>, List(<<>>)).items
                   /\ UNCHANGED kbi
    /\ UNCHANGED <<exportFrame, ks, resources, synonymMaps, seen>>

\* line 204: the loop over the knowledgeSources of the knowledge base ends
NextKnowledgeBase ==
    /\ pc = "sources" /\ ks_refs = <<>>
    /\ pc' = "roots"
    /\ kbi' = kbi + 1
    /\ UNCHANGED <<exportFrame, ks_refs, ks, resources, synonymMaps, seen, fetched, dumped>>

\* lines 204-218
FetchKnowledgeSource ==
    /\ pc = "sources" /\ ks_refs # <<>>
    /\ ks_refs' = Tail(ks_refs)
    /\ LET ks_name == Get(Head(ks_refs), K_name)
       IN  IF ~Unseen("knowledgesources", ks_name)
           THEN UNCHANGED <<pc, ks, resources, seen, fetched, dumped>>
           ELSE LET got == http_get("knowledgesources", PathName(ks_name))
                IN  /\ CountGet("knowledgesources", PathName(ks_name))
                    /\ CountDump("knowledgesources", PathName(ks_name),
                                 got # Raised /\ Truthy(got))
                    /\ IF got = Raised
                       THEN pc' = "crashed" /\ UNCHANGED <<ks, resources, seen>>
                       ELSE IF ~Truthy(got)
                       THEN UNCHANGED <<pc, ks, resources, seen>>
                       ELSE /\ ks' = got
                            /\ seen' = [seen EXCEPT !["knowledgesources"] =
                                           @ \cup {PathName(ks_name)}]
                            /\ resources' = extract_resources_from_ks(got)
                            /\ pc' = IF resources' = Raised THEN "crashed" ELSE "index"
    /\ UNCHANGED <<exportFrame, kbi, synonymMaps>>

\* lines 221-236
FetchIndex ==
    /\ pc = "index"
    /\ LET index_name == resources.indexName
       IN  IF ~Unseen("indexes", index_name)
           THEN pc' = "indexer" /\ UNCHANGED <<synonymMaps, seen, fetched, dumped>>
           ELSE LET index == http_get("indexes", PathName(index_name))
                IN  /\ CountGet("indexes", PathName(index_name))
                    /\ CountDump("indexes", PathName(index_name),
                                 index # Raised /\ Truthy(index))
                    /\ IF index = Raised
                       THEN pc' = "crashed" /\ UNCHANGED <<synonymMaps, seen>>
                       ELSE IF ~Truthy(index)
                       THEN pc' = "indexer" /\ UNCHANGED <<synonymMaps, seen>>
                       ELSE /\ seen' = [seen EXCEPT !["indexes"] =
                                           @ \cup {PathName(index_name)}]
                            /\ synonymMaps' =
                                   GetDefault(index, <<"synonymMaps">>, List(<<>>)).items
                            /\ pc' = IF synonymMaps' = <<>> THEN "indexer" ELSE "synmaps"
    /\ UNCHANGED <<exportFrame, kbi, ks_refs, ks, resources>>

\* line 234 moved under "if syn:", as the other five kinds have it
seen_synmaps_add_WhenFound(sm, syn) ==
    IF Truthy(syn) THEN [seen EXCEPT !["synonymmaps"] = @ \cup {PathName(sm)}] ELSE seen

\* line 234: seen_synmaps.add(sm), whether or not the synonym map was found
seen_synmaps_add(sm, syn) == [seen EXCEPT !["synonymmaps"] = @ \cup {PathName(sm)}]

\* lines 229-234
FetchSynonymMap ==
    /\ pc = "synmaps" /\ synonymMaps # <<>>
    /\ synonymMaps' = Tail(synonymMaps)
    /\ LET sm == Head(synonymMaps)
       IN  IF ~Unseen("synonymmaps", sm)
           THEN /\ pc' = IF synonymMaps' = <<>> THEN "indexer" ELSE "synmaps"
                /\ UNCHANGED <<seen, fetched, dumped>>
           ELSE LET syn == http_get("synonymmaps", PathName(sm))
                IN  /\ CountGet("synonymmaps", PathName(sm))
                    /\ CountDump("synonymmaps", PathName(sm), syn # Raised /\ Truthy(syn))
                    /\ IF syn = Raised
                       THEN pc' = "crashed" /\ UNCHANGED seen
                       ELSE /\ seen' = seen_synmaps_add(sm, syn)
                            /\ pc' = IF synonymMaps' = <<>> THEN "indexer" ELSE "synmaps"
    /\ UNCHANGED <<exportFrame, kbi, ks_refs, ks, resources>>

\* lines 239-246, 249-256 and 259-266: one dependent of the knowledge source
FetchDependent(kind, name, next) ==
    /\ IF ~Unseen(kind, name)
       THEN pc' = next /\ UNCHANGED <<seen, fetched, dumped>>
       ELSE LET got == http_get(kind, PathName(name))
            IN  /\ CountGet(kind, PathName(name))
                /\ CountDump(kind, PathName(name), got # Raised /\ Truthy(got))
                /\ IF got = Raised
                   THEN pc' = "crashed" /\ UNCHANGED seen
                   ELSE /\ pc' = next
                        /\ seen' = IF Truthy(got)
                                   THEN [seen EXCEPT ![kind] = @ \cup {PathName(name)}]
                                   ELSE seen
    /\ UNCHANGED <<exportFrame, kbi, ks_refs, ks, resources, synonymMaps>>

\* lines 239-246
FetchIndexer ==
    /\ pc = "indexer"
    /\ FetchDependent("indexers", resources.indexerName, "datasource")

\* lines 249-256
FetchDataSource ==
    /\ pc = "datasource"
    /\ FetchDependent("datasources", resources.dataSourceName, "skillset")

\* lines 259-266
FetchSkillset ==
    /\ pc = "skillset"
    /\ FetchDependent("skillsets", resources.skillsetName, "sources")

\* lines 268-277
PrintSummary ==
    /\ pc = "roots" /\ kbi > Len(kb_names)
    /\ counts' = [ k \in Kinds |->
                     IF k = "knowledgebases" THEN Len(kb_names) ELSE Cardinality(seen[k]) ]
    /\ pc' = "done"
    /\ UNCHANGED <<sanitizerVars, restorerVars, storeVars, svc, failing, kb_names, kbi, ks_refs, ks,
                   resources, synonymMaps, seen, fetched, dumped>>

NextExport ==
    \/ FetchKnowledgeBase
    \/ NextKnowledgeBase
    \/ FetchKnowledgeSource
    \/ FetchIndex
    \/ FetchSynonymMap
    \/ FetchIndexer
    \/ FetchDataSource
    \/ FetchSkillset
    \/ PrintSummary

SpecExport == InitExport /\ [][NextExport]_vars

-----------------------------------------------------------------------------
(* The configuration store, and the runs of the Sanitizer and of the *)
(* Restorer over its files                                           *)

\* bound of the number of files in the store
MaxFiles == 2

\* a file whose content json.load rejects
Malformed == [t |-> "malformed"]

\* what a call that does not write leaves of the file
NoWrite == [t |-> "nowrite"]

\* json.dumps (lines 160-161): the text of a JSON value
RECURSIVE json_dumps(_)
RECURSIVE JoinItems(_, _)
JoinItems(items, isdict) ==
    IF items = <<>> THEN ""
    ELSE (IF isdict
          THEN "\"" \o Text(Head(items).k) \o "\": " \o json_dumps(Head(items).v)
          ELSE json_dumps(Head(items)))
         \o (IF Len(items) > 1 THEN ", " ELSE "")
         \o JoinItems(Tail(items), isdict)

json_dumps(v) ==
    CASE v.t = "dict" -> "{" \o JoinItems(v.items, TRUE) \o "}"
      [] v.t = "list" -> "[" \o JoinItems(v.items, FALSE) \o "]"
      [] v.t = "str"  -> "\"" \o Text(v.s) \o "\""
      [] v.t = "num"  -> ToString(v.n)
      [] v.t = "bool" -> IF v.b THEN "true" ELSE "false"
      [] v.t = "null" -> "null"

\* mutant: the preview writes the file as the real run does
sanitize_file_WritesInPreview(content, dry) ==
    IF content = Malformed THEN [returned |-> FALSE, written |-> NoWrite]
    ELSE LET result == IF IsDict(content) THEN sanitize_dict(content, <<>>)
                       ELSE sanitize_list(<<>>, content)
         IN  [returned |-> IF dry THEN json_dumps(content) # json_dumps(result) ELSE TRUE,
              written |-> result]

\* sanitize_file, lines 148-173: the value returned and the content
\* written to the file
sanitize_file(content, dry) ==
    IF content = Malformed THEN [returned |-> FALSE, written |-> NoWrite]
    ELSE LET result == IF IsDict(content) THEN sanitize_dict(content, <<>>)
                       ELSE sanitize_list(<<>>, content)
         IN  IF dry
             THEN [returned |-> json_dumps(content) # json_dumps(result),
                   written |-> NoWrite]
             ELSE [returned |-> TRUE, written |-> result]

\* deploy_knowledge_source with every 2xx status taken as success
deploy_knowledge_source_Any2xx(response) ==
    IF response.t = "exception" THEN [ok |-> FALSE, logged |-> "Request failed"]
    ELSE IF response.status >= 200 /\ response.status <= 299
    THEN [ok |-> TRUE, logged |-> "nothing"]
    ELSE [ok |-> FALSE, logged |-> "status and body"]

\* deploy_knowledge_source, lines 306-327: the value returned and what is
\* logged of the response
deploy_knowledge_source(response) ==
    IF response.t = "exception" THEN [ok |-> FALSE, logged |-> "Request failed"]
    ELSE IF response.status \in {200, 201, 204}
    THEN [ok |-> TRUE, logged |-> "nothing"]
    ELSE [ok |-> FALSE, logged |-> "status and body"]

\* deploy_knowledge_base, lines 348-369
deploy_knowledge_base(response) ==
    IF response.t = "exception" THEN [ok |-> FALSE, logged |-> "Request failed"]
    ELSE IF response.status \in {200, 201, 204}
    THEN [ok |-> TRUE, logged |-> "nothing"]
    ELSE [ok |-> FALSE, logged |-> "status and body"]

\* mutant: the loop goes on after a rejected deploy
DeployFile_ContinueOnReject(content, replaced, result) ==
    IF content = Malformed \/ replaced = Raised
    THEN [sent |-> FALSE, exit |-> TRUE]
    ELSE [sent |-> TRUE, exit |-> FALSE]

\* mutant: a file that does not parse is skipped
DeployFile_SkipMalformed(content, replaced, result) ==
    IF content = Malformed THEN [sent |-> FALSE, exit |-> FALSE]
    ELSE IF replaced = Raised THEN [sent |-> FALSE, exit |-> TRUE]
    ELSE [sent |-> TRUE, exit |-> ~result.ok]

\* the body of the loops of main, lines 519-545 and 561-583: whether the
\* deploy call is made and whether the run exits; json.load and the
\* replacement raise into "except Exception", which exits
DeployFile(content, replaced, result) ==
    IF content = Malformed \/ replaced = Raised
    THEN [sent |-> FALSE, exit |-> TRUE]
    ELSE [sent |-> TRUE, exit |-> ~result.ok]

\* the documents of the store: the document of the preview scenario and
\* what the Sanitizer makes of it, a blob
\* knowledge source with live values and the metadata keys at the top level
\* and in its parameter block, and a knowledge base whose
\* inferenceParameters holds a null azureOpenAIParameters
ApiKeyDoc == Dict(<< KV(K_apiKey, Str(S_secret)) >>)

NestedODataSource ==
    Dict(ODataEntries(TRUE)
           \o << KV(K_name, Str(<<"ks1">>)), KV(<<"kind">>, Str(<<"azureBlob">>)),
                 KV(K_azureBlobParameters,
                    Dict(<< KV(K_odata_etag, Str(S_etag)),
                            KV(K_connectionString, Str(S_oldConn)),
                            KV(K_containerName, Str(S_container)),
                            KV(K_ingestionParameters,
                               Dict(<< KV(K_embeddingModel, ModelBlock("live")) >>)) >>)) >>)

NullInferenceBase ==
    KnowledgeBaseDoc([odata |-> TRUE, models |-> <<"live">>, inference |-> "noparams"])

FileContents ==
    { ApiKeyDoc, sanitize(ApiKeyDoc), NestedODataSource, NullInferenceBase, Malformed }

\* the *.json files the store may hold, as sorted() orders them: the
\* sub-directories by name, the files of one sub-directory by name
SortedPaths ==
    << <<"blob", "a">>, <<"knowledge-bases", "a">>, <<"knowledge-bases", "b">>,
       <<"knowledge-sources", "a">>, <<"knowledge-sources", "b">> >>

Paths == { SortedPaths[i] : i \in 1..Len(SortedPaths) }

Stores ==
    UNION { [S -> FileContents] : S \in { T \in SUBSET Paths : Cardinality(T) <= MaxFiles } }

\* the files of the sub-directories dirs in descending order of their paths
Listing_Descending(dirs) ==
    LET Here(p) == p \in DOMAIN files /\ p[1] \in dirs
        asc == SelectSeq(SortedPaths, Here)
    IN  [i \in 1..Len(asc) |-> asc[Len(asc) + 1 - i]]

\* sorted(subdir.glob("*.json")) over the sub-directories dirs
Listing(dirs) ==
    LET Here(p) == p \in DOMAIN files /\ p[1] \in dirs
    IN  SelectSeq(SortedPaths, Here)

\* the sub-directories main of the Sanitizer visits: all but args.exclude,
\* ["blob"] by default (lines 188-190, 220-222)
SanitizedDirs == { "knowledge-bases", "knowledge-sources" }

\* the answers of the target to a PUT: a status, or no answer at all
\* (requests.RequestException)
Responses ==
    { [t |-> "response", status |-> s] : s \in {199, 200, 201, 202, 204, 299, 300, 400} }
      \cup { [t |-> "exception"] }

\* the credentials of the Restorer run
RunBundle ==
    [ openai_endpoint |-> Str(S_newOpenAI), openai_key |-> Str(<<"openai-key-1">>),
      storage_connection_string |-> Str(S_newConn),
      blob_container |-> Str(DEFAULT_BLOB_CONTAINER),
      ai_services_endpoint |-> Null, ai_services_key |-> Null ]

InitStore ==
    /\ pc = "store"
    /\ files \in Stores
    /\ creds = RunBundle
    /\ dry_run = FALSE /\ todo = <<>> /\ total_count = 0 /\ modified_count = 0
    /\ returned = <<>> /\ puts = <<>> /\ exit_code = -1
    /\ data = NoDoc /\ sanitized = NoDoc /\ resanitized = NoDoc /\ dir = "any"
    /\ stored = NoDoc /\ restored = NoDoc
    /\ ExporterIdle

storeFrame == <<sanitizerVars, dir, creds, stored, restored, exporterVars>>

\* main of the Sanitizer, lines 176-222: a real run, or a preview; a preview
\* may follow a real run over the same store
StartSanitizer ==
    /\ \/ pc = "store"
       \/ pc = "swept" /\ ~dry_run
    /\ \E d \in BOOLEAN : dry_run' = IF pc = "swept" THEN TRUE ELSE d
    /\ todo' = Listing(SanitizedDirs)
    /\ total_count' = 0
    /\ modified_count' = 0
    /\ returned' = <<>>
    /\ pc' = "sanitizer"
    /\ UNCHANGED <<storeFrame, files, puts, exit_code>>

\* main of the Sanitizer, lines 228-231, with the call of sanitize_file
SanitizeFile ==
    /\ pc = "sanitizer" /\ todo # <<>>
    /\ LET json_file == Head(todo)
           r == sanitize_file(files[json_file], dry_run)
       IN  /\ total_count' = total_count + 1
           /\ modified_count' = IF r.returned THEN modified_count + 1 ELSE modified_count
           /\ returned' = Append(returned, [path |-> json_file, value |-> r.returned])
           /\ files' = IF r.written = NoWrite THEN files
                       ELSE [files EXCEPT ![json_file] = r.written]
    /\ todo' = Tail(todo)
    /\ UNCHANGED <<storeFrame, pc, dry_run, puts, exit_code>>

\* main of the Sanitizer, lines 233-239
SanitizerSummary ==
    /\ pc = "sanitizer" /\ todo = <<>>
    /\ pc' = "swept"
    /\ UNCHANGED <<storeFrame, storeVars>>

\* main of the Restorer, lines 372-517
StartRestorer ==
    /\ pc \in {"store", "swept"}
    /\ todo' = Listing({"knowledge-sources"})
    /\ puts' = <<>>
    /\ pc' = "sources"
    /\ UNCHANGED <<storeFrame, files, dry_run, total_count, modified_count, returned,
                   exit_code>>

\* one turn of a loop of main: load, replace, deploy, exit on failure
DeployTurn(replaced, result(_)) ==
    \E response \in Responses :
        LET source_file == Head(todo)
            step == DeployFile(files[source_file], replaced, result(response))
        IN  /\ puts' = IF step.sent
                       THEN Append(puts, [path |-> source_file, doc |-> replaced,
                                          response |-> response,
                                          ok |-> result(response).ok,
                                          logged |-> result(response).logged])
                       ELSE puts
            /\ IF step.exit
               THEN pc' = "exited" /\ exit_code' = 1 /\ UNCHANGED todo
               ELSE todo' = Tail(todo) /\ UNCHANGED <<pc, exit_code>>

\* main of the Restorer, lines 519-545
DeployKnowledgeSource ==
    /\ pc = "sources" /\ todo # <<>>
    /\ DeployTurn(IF files[Head(todo)] = Malformed THEN Raised
                  ELSE replace_placeholders_in_knowledge_source(files[Head(todo)], creds),
                  deploy_knowledge_source)
    /\ UNCHANGED <<storeFrame, files, dry_run, total_count, modified_count, returned>>

\* main of the Restorer, lines 547-559: the loop over the knowledge sources
\* has ended
ListKnowledgeBases ==
    /\ pc = "sources" /\ todo = <<>>
    /\ todo' = Listing({"knowledge-bases"})
    /\ pc' = "bases"
    /\ UNCHANGED <<storeFrame, files, dry_run, total_count, modified_count, returned,
                   puts, exit_code>>

\* main of the Restorer, lines 561-583
DeployKnowledgeBase ==
    /\ pc = "bases" /\ todo # <<>>
    /\ DeployTurn(IF files[Head(todo)] = Malformed THEN Raised
                  ELSE replace_placeholders_in_knowledge_base(files[Head(todo)], creds),
                  deploy_knowledge_base)
    /\ UNCHANGED <<storeFrame, files, dry_run, total_count, modified_count, returned>>

\* main of the Restorer, lines 585-589
RestoreComplete ==
    /\ pc = "bases" /\ todo = <<>>
    /\ pc' = "done"
    /\ exit_code' = 0
    /\ UNCHANGED <<storeFrame, files, dry_run, todo, total_count, modified_count,
                   returned, puts>>

NextStore ==
    \/ StartSanitizer
    \/ SanitizeFile
    \/ SanitizerSummary
    \/ StartRestorer
    \/ DeployKnowledgeSource
    \/ ListKnowledgeBases
    \/ DeployKnowledgeBase
    \/ RestoreComplete

SpecStore == InitStore /\ [][NextStore]_vars

-----------------------------------------------------------------------------
(* Reading documents: the fields of a document, or of two documents of the
   same shape, position by position *)

RECURSIVE Walk(_, _, _, _, _)
\* The leaves of a, each with the leaf of b at the same position, the key it
\* sits under (for an element of a list: the key of the list), the key its
\* mapping sits under, and whether it is an element of a list.  Where b has
\* another shape than a, the field's b is tagged "mismatch".
Walk(a, b, key, parent, inlist) ==
    LET field(x, y) == [key |-> key, parent |-> parent, inlist |-> inlist, a |-> x, b |-> y]
        mismatch    == { field(a, [t |-> "mismatch"]) }
    IN  IF IsDict(a)
        THEN IF /\ IsDict(b) /\ Len(b.items) = Len(a.items)
                /\ \A i \in 1..Len(a.items) : b.items[i].k = a.items[i].k
             THEN UNION { Walk(a.items[i].v, b.items[i].v, a.items[i].k, key, FALSE)
                            : i \in 1..Len(a.items) }
             ELSE mismatch
        ELSE IF IsList(a)
        THEN IF IsList(b) /\ Len(b.items) = Len(a.items)
             THEN UNION { Walk(a.items[i], b.items[i], key, parent, TRUE)
                            : i \in 1..Len(a.items) }
             ELSE mismatch
        ELSE { field(a, b) }

Fields(d) == Walk(d, d, <<>>, <<>>, FALSE)

RECURSIVE KeysOf(_)
\* every key of d, at any nesting level
KeysOf(d) ==
    IF IsDict(d)
    THEN { d.items[i].k : i \in 1..Len(d.items) }
           \cup UNION { KeysOf(d.items[i].v) : i \in 1..Len(d.items) }
    ELSE IF IsList(d) THEN UNION { KeysOf(d.items[i]) : i \in 1..Len(d.items) }
    ELSE {}

\* a key's name, letter case and the separators "-" and "_" put aside
KeyName(key) == Text(Replace(Replace(LowerStr(key), "-"), "_"))

SecretNames ==
    { "apikey", "key", "connectionstring", "secret", "password", "token",
      "accesskey", "primarykey", "secondarykey" }

CloudDomains ==
    { ".search.windows.net", ".openai.azure.com", ".cognitiveservices.azure.com",
      ".blob.core.windows.net", ".documents.azure.com" }

\* a string of one of the cloud-service URL shapes
UrlShaped(s) ==
    /\ Len(s) >= 3
    /\ Lower(s[1]) = "https://"
    /\ s[2] \in HostLabel
    /\ Lower(s[3]) \in CloudDomains

Placeholders == { REDACTED_PLACEHOLDER, URL_PLACEHOLDER, CONTAINER_PLACEHOLDER }

\* a containerName field, or the name field of a container block
ContainerField(f) ==
    /\ ~f.inlist
    /\ \/ Text(LowerStr(f.key)) = "containername"
       \/ Text(LowerStr(f.key)) = "name" /\ Text(LowerStr(f.parent)) = "container"

RECURSIVE PathLeaves(_, _)
\* the leaves of d (and its empty mappings and lists), each with its path
\* from the root: [k |-> key] into a mapping, [i |-> index] into a list
PathLeaves(d, path) ==
    IF IsDict(d) /\ d.items # <<>>
    THEN UNION { PathLeaves(d.items[i].v, Append(path, [k |-> d.items[i].k]))
                   : i \in 1..Len(d.items) }
    ELSE IF IsList(d) /\ d.items # <<>>
    THEN UNION { PathLeaves(d.items[i], Append(path, [i |-> i])) : i \in 1..Len(d.items) }
    ELSE { <<path, d>> }

RECURSIVE GetIn(_, _)
\* the value at a path of keys, None where a key is absent or the value is
\* no mapping
GetIn(d, keys) ==
    IF keys = <<>> THEN d
    ELSE IF IsDict(d) /\ Has(d, keys[1]) THEN GetIn(Get(d, keys[1]), Tail(keys))
    ELSE Null

HoldsPlaceholder(d) == \E f \in Fields(d) : IsStr(f.a) /\ f.a.s \in Placeholders

ParamsKeys ==
    { K_azureBlobParameters, K_indexedOneLakeParameters, K_indexedSharePointParameters }

-----------------------------------------------------------------------------
(* Claims on the Sanitizer *)

C3_Original ==
    /\ pc = "resanitized" => resanitized = sanitized
    /\ pc # "loaded" =>
          \A f \in Walk(data, sanitized, <<>>, <<>>, FALSE) :
              IsStr(f.a) /\ f.a.s \in Placeholders => f.b = f.a

\* C3 as amended: sanitize is idempotent; a placeholder token is left as it
\* is under every key that is not secret-indicating, and under a
\* secret-indicating key it becomes the secret placeholder.
C3_IdempotentSanitize ==
    /\ pc = "resanitized" => resanitized = sanitized
    /\ pc # "loaded" =>
          \A f \in Walk(data, sanitized, <<>>, <<>>, FALSE) :
              IsStr(f.a) /\ f.a.s \in Placeholders =>
                  f.b = IF KeyName(f.key) \in SecretNames
                        THEN Str(REDACTED_PLACEHOLDER)
                        ELSE f.a

\* the output of sanitize, redacted at a secret and at an endpoint, has been
\* sanitized again
C3_Witness ==
    /\ pc = "resanitized"
    /\ \E f \in Walk(data, sanitized, <<>>, <<>>, FALSE) :
          f.a = Str(URL_PLACEHOLDER) /\ f.b = Str(REDACTED_PLACEHOLDER)
    /\ \E f \in Walk(data, sanitized, <<>>, <<>>, FALSE) :
          f.a = Str(S_searchUrl) /\ f.b = Str(URL_PLACEHOLDER)

\* C9 as stated: a sanitized document holds neither protocol metadata key,
\* at any nesting level.
C9_Original ==
    pc # "loaded" => KeysOf(sanitized) \cap {K_odata_context, K_odata_etag} = {}

\* C9 as amended: sanitize removes no key.  Both protocol metadata keys stay
\* wherever they appear; the value under either is replaced by the endpoint
\* placeholder when it is a string of a cloud-service URL shape and is
\* unchanged otherwise.
C9_MetadataKeysKept ==
    pc # "loaded" =>
        /\ KeysOf(sanitized) = KeysOf(data)
        /\ \A f \in Walk(data, sanitized, <<>>, <<>>, FALSE) :
              f.key \in {K_odata_context, K_odata_etag} =>
                  f.b = IF IsStr(f.a) /\ UrlShaped(f.a.s)
                        THEN Str(URL_PLACEHOLDER)
                        ELSE f.a

\* a document with the context URL under @odata.context, nested, has been
\* sanitized
C9_Witness ==
    /\ pc = "sanitized"
    /\ \E f \in Fields(data) :
          f.key = K_odata_context /\ f.parent # <<>> /\ f.a = Str(S_searchUrl)

\* C10: sanitize(d) has the keys, the key order, the nesting and the list
\* lengths of d; each leaf is the leaf of d or one of the three placeholders;
\* a leaf that is no string is unchanged; d itself is not changed.
C10_StructurePreserved ==
    /\ [](pc # "loaded" =>
            \A f \in Walk(data, sanitized, <<>>, <<>>, FALSE) :
                /\ f.b.t # "mismatch"
                /\ f.b = f.a \/ (IsStr(f.a) /\ f.b \in { Str(p) : p \in Placeholders }))
    /\ [][data' = data]_vars

\* a mapping of two entries, one redacted and one not, has been sanitized
C10_Witness ==
    /\ pc = "sanitized"
    /\ IsDict(data) /\ Len(data.items) = 2
    /\ sanitized.items[1].v # data.items[1].v
    /\ sanitized.items[2].v = data.items[2].v
    /\ data.items[2].v = Null

-----------------------------------------------------------------------------
(* Claims on the Restorer *)

\* C2: restoring a sanitized knowledge source or knowledge base with a full
\* credential bundle leaves none of the three placeholder tokens at any
\* position of the document.
C2_NoPlaceholderAfterRestore ==
    (/\ pc = "restored" /\ sanitized # NoDoc
     /\ FullBundle(creds) /\ restored # Raised)
        => ~HoldsPlaceholder(restored)

\* the same, for azureBlob knowledge sources and knowledge bases only
C2_BlobAndBaseOnly ==
    (/\ pc = "restored" /\ sanitized # NoDoc
     /\ FullBundle(creds) /\ restored # Raised
     /\ ~Has(data, K_indexedOneLakeParameters)
     /\ ~Has(data, K_indexedSharePointParameters))
        => ~HoldsPlaceholder(restored)

\* the paths of d at which sanitize changed the leaf
TouchedPaths == { p[1] : p \in PathLeaves(data, <<>>) \ PathLeaves(sanitized, <<>>) }

RoundTripDone ==
    /\ pc = "restored" /\ sanitized # NoDoc /\ restored # Raised
    /\ ~HoldsPlaceholder(data)

\* C4 as stated: after sanitize and restore, the document equals d at every
\* field but those sanitize changed.
C4_Original ==
    RoundTripDone =>
        /\ \A p \in PathLeaves(data, <<>>) \cap PathLeaves(sanitized, <<>>) :
              p \in PathLeaves(restored, <<>>)
        /\ \A p \in PathLeaves(restored, <<>>) \ PathLeaves(data, <<>>) :
              p[1] \in TouchedPaths

ConnPath == << [k |-> K_azureBlobParameters], [k |-> K_connectionString] >>
AiPath   == << [k |-> K_azureBlobParameters], [k |-> K_ingestionParameters],
               [k |-> K_aiServices] >>

\* the fields restore changes although sanitize left them as they were
RestoreOnly(path, leaf) ==
    \/ path \in { << [k |-> K_odata_context] >>, << [k |-> K_odata_etag] >> }
    \/ path = ConnPath /\ leaf \in { Null, Str(<<>>) }
    \/ /\ ~FullBundle(creds)
       /\ Len(path) > Len(AiPath) /\ SubSeq(path, 1, Len(AiPath)) = AiPath

\* a knowledge base whose inferenceParameters holds a null azureOpenAIParameters
NullInference(d) ==
    /\ dir = "knowledge-bases"
    /\ Has(d, K_inferenceParameters)
    /\ IsDict(Get(d, K_inferenceParameters))
    /\ Has(Get(d, K_inferenceParameters), K_azureOpenAIParameters)
    /\ GetIn(d, <<K_inferenceParameters, K_azureOpenAIParameters>>) = Null

\* C4 as amended: sanitize and restore of a document d without placeholder
\* raises exactly when d is a knowledge base whose inferenceParameters holds
\* a null azureOpenAIParameters; otherwise the restored document equals d at
\* every field but those sanitize changed, the two top-level protocol
\* metadata keys (removed), a blob connectionString that is absent, null or
\* empty in d (set to the storage connection string) and, when the
\* AI-services endpoint or key is missing, a non-empty aiServices block of the
\* blob ingestion parameters (replaced by null).
C4_RoundTrip ==
    /\ pc = "restored" /\ sanitized # NoDoc /\ ~HoldsPlaceholder(data) =>
          (restored = Raised <=> NullInference(data))
    /\ RoundTripDone =>
        /\ \A p \in PathLeaves(data, <<>>) \cap PathLeaves(sanitized, <<>>) :
              p \in PathLeaves(restored, <<>>) \/ RestoreOnly(p[1], p[2])
        /\ \A p \in PathLeaves(restored, <<>>) \ PathLeaves(data, <<>>) :
              \/ p[1] \in TouchedPaths
              \/ p[1] = ConnPath /\ p[2] = creds.storage_connection_string
              \/ p[1] = AiPath /\ p[2] = Null /\ ~FullBundle(creds)

\* a blob knowledge source with live endpoints and keys, the metadata keys,
\* and a null connectionString has been sanitized and restored
C4_Witness ==
    /\ RoundTripDone
    /\ Has(data, K_odata_etag)
    /\ Has(GetIn(data, <<K_azureBlobParameters>>), K_connectionString)
    /\ GetIn(data, <<K_azureBlobParameters, K_connectionString>>) = Null
    /\ GetIn(data, <<K_azureBlobParameters, K_ingestionParameters, K_embeddingModel,
                     K_azureOpenAIParameters, K_apiKey>>) = Str(S_secret)
    /\ GetIn(restored, <<K_azureBlobParameters, K_ingestionParameters, K_embeddingModel,
                         K_azureOpenAIParameters, K_apiKey>>) = creds.openai_key
    /\ GetIn(data, <<K_azureBlobParameters, K_ingestionParameters, K_aiServices,
                     K_uri>>) = Str(S_oldAi)
    /\ ~FullBundle(creds)

\* C7: with the AI-services endpoint or key missing, restoring a knowledge
\* source whose ingestion block holds a non-empty aiServices block yields an
\* ingestion block without the aiServices key, for each indexed kind.
C7_AiServicesBlockAbsent ==
    (pc = "restored" /\ dir = "knowledge-sources" /\ ~FullBundle(creds)) =>
        \A pk \in ParamsKeys :
            Truthy(GetIn(stored, <<pk, K_ingestionParameters, K_aiServices>>))
                => ~Has(GetIn(restored, <<pk, K_ingestionParameters>>), K_aiServices)

\* the same for azureBlob only, the block being null rather than absent
C7_BlobBlockNulled ==
    (pc = "restored" /\ dir = "knowledge-sources" /\ ~FullBundle(creds)) =>
        (Truthy(GetIn(stored, <<K_azureBlobParameters, K_ingestionParameters, K_aiServices>>))
            => /\ Has(GetIn(restored, <<K_azureBlobParameters, K_ingestionParameters>>),
                      K_aiServices)
               /\ GetIn(restored, <<K_azureBlobParameters, K_ingestionParameters,
                                    K_aiServices>>) = Null)

-----------------------------------------------------------------------------
(* Claims on the dependency resolver *)

KindOf(d) == IF Has(d, <<"kind">>) THEN Text(Get(d, <<"kind">>).s) ELSE ""

\* the names of the createdResources block at a path, where it is a mapping
CreatedAt(d, params_key) ==
    LET created == GetIn(d, <<params_key, <<"createdResources">>>>)
    IN  [ indexName      |-> GetIn(created, << <<"index">> >>),
          indexerName    |-> GetIn(created, << <<"indexer">> >>),
          dataSourceName |-> GetIn(created, << <<"datasource">> >>),
          skillsetName   |-> GetIn(created, << <<"skillset">> >>) ]

HasCreated(d, params_key) == IsDict(GetIn(d, <<params_key, <<"createdResources">>>>))

\* C8: the resolver returns, for searchIndex, the index name of
\* searchIndexParameters.searchIndexName and nothing else; for azureBlob,
\* indexedOneLake and indexedSharePoint, the four names of the
\* createdResources block under the kind's own parameter block; for
\* remoteSharePoint, web, an unknown and a missing kind, four absent names,
\* without raising.
C8_KindDispatch ==
    pc = "resolved" =>
        LET kind == KindOf(ks)
        IN  /\ kind = "searchIndex" =>
                  resources = [NoResources EXCEPT !.indexName =
                                  GetIn(ks, << <<"searchIndexParameters">>,
                                               <<"searchIndexName">> >>)]
            /\ \A k \in {"azureBlob", "indexedOneLake", "indexedSharePoint"} :
                  (kind = k /\ HasCreated(ks, ParamsKey(k)))
                      => resources = CreatedAt(ks, ParamsKey(k))
            /\ kind \notin {"searchIndex", "azureBlob", "indexedOneLake", "indexedSharePoint"}
                  => resources = NoResources

\* an indexedOneLake source that also carries azureBlobParameters with other
\* names has been resolved to the four names of its own block
C8_Witness ==
    /\ pc = "resolved"
    /\ KindOf(ks) = "indexedOneLake"
    /\ HasCreated(ks, K_azureBlobParameters)
    /\ "indexName" \in DOMAIN resources
    /\ resources.indexName = Str(<<"idx", "2">>)
    /\ resources.skillsetName = Str(<<"ss", "2">>)

-----------------------------------------------------------------------------
(* Claims on the Graph Exporter *)

DistinctRoots ==
    \A i, j \in 1..Len(kb_names) : kb_names[i] = kb_names[j] => i = j

Exists(node) == node \in Nodes /\ svc[node] # NoDoc

\* the names a list of JSON values holds, as resource names
NamesIn(items) == { PathName(items[i]) : i \in { j \in 1..Len(items) : Truthy(items[j]) } }

RootDocs ==
    { svc[<<"knowledgebases", kb_names[i]>>] : i \in 1..Len(kb_names) } \ {NoDoc}

ReachedSources ==
    { n \in UNION { { <<"knowledgesources", name>> :
                        name \in NamesIn([i \in 1..Len(Get(kb, <<"knowledgeSources">>).items) |->
                                            Get(Get(kb, <<"knowledgeSources">>).items[i], K_name)]) }
                    : kb \in RootDocs } : Exists(n) }

ReachedDependents ==
    { n \in UNION { { <<"indexes", nm>> :
                        nm \in NamesIn(<<extract_resources_from_ks(svc[src]).indexName>>) }
                    \cup { <<"indexers", nm>> :
                        nm \in NamesIn(<<extract_resources_from_ks(svc[src]).indexerName>>) }
                    \cup { <<"datasources", nm>> :
                        nm \in NamesIn(<<extract_resources_from_ks(svc[src]).dataSourceName>>) }
                    \cup { <<"skillsets", nm>> :
                        nm \in NamesIn(<<extract_resources_from_ks(svc[src]).skillsetName>>) }
                    : src \in ReachedSources } : Exists(n) }

ReachedSynonymMaps ==
    { n \in UNION { { <<"synonymmaps", nm>> :
                        nm \in NamesIn(Get(svc[idx], <<"synonymMaps">>).items) }
                    : idx \in { d \in ReachedDependents : d[1] = "indexes" } } : Exists(n) }

\* the nodes below the knowledge bases that exist on the service and that
\* the roots of the run reach
ReachedNodes == ReachedSources \cup ReachedDependents \cup ReachedSynonymMaps

ScenarioNodes ==
    { <<"knowledgebases", "kb1">>, <<"knowledgesources", "ks1">>, <<"indexes", "idx1">>,
      <<"indexers", "idxr1">>, <<"datasources", "ds1">>, <<"skillsets", "ss1">> }

\* the service and the roots of the kb1/ks1 scenario
Scenario ==
    /\ kb_names = <<"kb1">>
    /\ svc[<<"knowledgebases", "kb1">>] = KbDoc("kb1", <<"ks1">>)
    /\ svc[<<"knowledgesources", "ks1">>] = KsDoc("ks1", "azureBlob", "1")
    /\ \A n \in ScenarioNodes : Exists(n) /\ n \notin failing

\* C5: in a run over distinct roots no node below the knowledge bases is
\* fetched or persisted twice, and when the run has ended every such node
\* that exists on the service and is reached from the roots has been fetched
\* exactly once and persisted exactly once; in the kb1/ks1 azureBlob scenario
\* the ended run has fetched and persisted each of kb1, ks1, idx1, idxr1,
\* ds1 and ss1 exactly once and has fetched nothing twice
C5_FetchedAndPersistedOnce ==
    DistinctRoots =>
        /\ \A n \in Nodes :
              n[1] # "knowledgebases" /\ Exists(n) => fetched[n] <= 1 /\ dumped[n] <= 1
        /\ pc = "done" => \A n \in ReachedNodes : fetched[n] = 1 /\ dumped[n] = 1
        /\ pc = "done" /\ Scenario =>
              /\ \A n \in ScenarioNodes : fetched[n] = 1 /\ dumped[n] = 1
              /\ \A n \in Nodes : fetched[n] <= 1

\* two distinct roots have been exported that reference the same knowledge
\* source, and a second knowledge source shares the dependents of the first
C5_Witness ==
    /\ pc = "done"
    /\ kb_names = <<"kb1", "kb2">>
    /\ svc[<<"knowledgebases", "kb1">>] = KbDoc("kb1", <<"ks1", "ks2", "ks1">>)
    /\ svc[<<"knowledgebases", "kb2">>] = KbDoc("kb2", <<"ks2", "ks9", "ks1">>)
    /\ svc[<<"knowledgesources", "ks2">>] = KsDoc("ks2", "azureBlob", "1")
    /\ svc[<<"indexes", "idx1">>] = IndexDoc(<<"idx", "1">>, <<"sm1", "sm1">>)
    /\ ScenarioNodes \cup {<<"synonymmaps", "sm1">>} \subseteq ReachedNodes \cup
           {<<"knowledgebases", "kb1">>}
    /\ \A n \in ReachedNodes : fetched[n] = 1 /\ dumped[n] = 1

\* C6: whatever the sequence of root names, no node of any of the seven
\* kinds, knowledge bases included, is persisted more than once in the run
C6_EveryNodePersistedOnce ==
    \A n \in Nodes : dumped[n] <= 1

\* a GET of the run has been answered with an error other than not-found
FetchError == \E n \in failing : fetched[n] >= 1

\* the roots after the root the run is at
LaterRoots == { kb_names[i] : i \in (kbi + 1)..Len(kb_names) }

\* the roots up to the root the run is at
RootsSoFar == { kb_names[i] : i \in 1..kbi }

\* C14 as stated: when a GET under root r has been answered with an error
\* other than not-found and the run has ended, every later root has been
\* fetched and, if it exists, persisted.
C14_Original ==
    FetchError /\ pc \in {"done", "crashed"} =>
        \A r \in LaterRoots :
            /\ fetched[<<"knowledgebases", r>>] >= 1
            /\ Exists(<<"knowledgebases", r>>) /\ <<"knowledgebases", r>> \notin failing
                  => dumped[<<"knowledgebases", r>>] >= 1

\* C14 as amended: a GET answered with an error other than not-found ends
\* the run where it is: the failing node has been fetched once and is not
\* persisted, no later root that was not a root before is fetched or
\* persisted, and no summary is printed.
C14_ErrorEndsRun ==
    FetchError =>
        /\ pc = "crashed"
        /\ counts = <<>>
        /\ \A n \in failing : fetched[n] = 1 /\ dumped[n] = 0
        /\ \A r \in LaterRoots \ RootsSoFar :
              fetched[<<"knowledgebases", r>>] = 0 /\ dumped[<<"knowledgebases", r>>] = 0

\* a knowledge source of the first root answers with an error and the
\* second root, which exists, is never fetched
C14_Witness ==
    /\ FetchError
    /\ kb_names = <<"kb1", "kb2">>
    /\ failing = {<<"knowledgesources", "ks1">>}
    /\ Exists(<<"knowledgebases", "kb2">>)
    /\ dumped[<<"knowledgebases", "kb1">>] = 1
    /\ fetched[<<"knowledgebases", "kb2">>] = 0
    /\ pc = "crashed"

\* no knowledge source of the service has a null createdResources block
NoNullBlock ==
    \A n \in Nodes :
        n[1] = "knowledgesources" /\ Exists(n) => extract_resources_from_ks(svc[n]) # Raised

\* what is stated of a run that has ended and in which every failing fetch
\* was a not-found: every root has been fetched; every knowledge source,
\* index, indexer, data source, skillset and synonym map that the roots
\* reach and that exists has been fetched and persisted, whatever other
\* nodes were not found
NotFoundSkipped ==
    /\ \A i \in 1..Len(kb_names) : fetched[<<"knowledgebases", kb_names[i]>>] >= 1
    /\ \A n \in ReachedNodes : fetched[n] >= 1 /\ dumped[n] >= 1
    /\ \A n \in Nodes : ~Exists(n) => dumped[n] = 0

\* C15: a run in which no fetch fails otherwise than by not-found always
\* completes normally, and at its end every root has been processed and
\* every existing node the roots reach has been fetched and persisted,
\* whatever roots, knowledge sources or dependents were missing
C15_NotFoundNeverFatal ==
    ~FetchError =>
        /\ pc # "crashed"
        /\ pc = "done" => NotFoundSkipped

\* the same without a null createdResources block on the service
C15_WithoutNullBlock ==
    ~FetchError /\ NoNullBlock =>
        /\ pc # "crashed"
        /\ pc = "done" => NotFoundSkipped

\* C16 as stated: a node below the knowledge bases whose fetch returned
\* not-found is not fetched again in the run, for every kind.
C16_Original ==
    \A n \in Nodes :
        n[1] # "knowledgebases" /\ ~Exists(n) /\ n \notin failing => fetched[n] <= 1

\* C16 as amended: a synonym map whose fetch returned not-found is not
\* fetched again in the run, however many indexes name it.
C16_MissingSynonymMapOnce ==
    \A n \in Nodes :
        n[1] = "synonymmaps" /\ ~Exists(n) /\ n \notin failing => fetched[n] <= 1

\* two indexes of the run, one of them twice, name a synonym map that is not
\* on the service; it has been fetched once
C16_Witness ==
    /\ pc = "done"
    /\ ~Exists(<<"synonymmaps", "sm1">>) /\ failing = {}
    /\ svc[<<"indexes", "idx1">>] = IndexDoc(<<"idx", "1">>, <<"sm1", "sm1">>)
    /\ {"idx1", "idx2"} \subseteq seen["indexes"]
    /\ fetched[<<"synonymmaps", "sm1">>] = 1
    /\ dumped[<<"synonymmaps", "sm1">>] = 0

\* the nodes of a kind that the run has persisted
Persisted(kind) == { n \in Nodes : n[1] = kind /\ dumped[n] >= 1 }

\* C20: the count printed for each of the seven kinds is the number of
\* distinct nodes of the kind that the run persisted
C20_CountsArePersisted ==
    pc = "done" => \A kind \in Kinds : counts[kind] = Cardinality(Persisted(kind))

-----------------------------------------------------------------------------
(* Claims on the frame of the Restorer *)

IsPlaceholder(leaf) == IsStr(leaf) /\ leaf.s \in Placeholders

\* the fields the claim lets restore change whatever they hold: the two
\* top-level metadata keys and, under the AI-services fallback, the
\* aiServices block of the blob ingestion parameters
FrameExempt(path) ==
    \/ path \in { << [k |-> K_odata_context] >>, << [k |-> K_odata_etag] >> }
    \/ /\ ~FullBundle(creds)
       /\ Len(path) > Len(AiPath) /\ SubSeq(path, 1, Len(AiPath)) = AiPath

\* a leaf of the restored document that the stored document does not have
\* and that the claim allows: the replacement of a placeholder, or the null
\* the AI-services fallback leaves
FrameNew(p) ==
    \/ \E q \in PathLeaves(stored, <<>>) : q[1] = p[1] /\ IsPlaceholder(q[2])
    \/ p[1] = AiPath /\ p[2] = Null /\ ~FullBundle(creds)

\* C17 as stated: restore changes no field but those holding a placeholder,
\* the two metadata keys and the aiServices block of the fallback.
C17_Original ==
    pc = "restored" /\ restored # Raised =>
        /\ \A p \in PathLeaves(stored, <<>>) :
              ~IsPlaceholder(p[2]) /\ ~FrameExempt(p[1]) => p \in PathLeaves(restored, <<>>)
        /\ \A p \in PathLeaves(restored, <<>>) \ PathLeaves(stored, <<>>) : FrameNew(p)

\* C17 as amended: restore raises exactly for a knowledge base whose
\* inferenceParameters holds a null azureOpenAIParameters; otherwise it
\* changes no field but those holding a placeholder, the two metadata keys,
\* the aiServices block of the fallback, and a connectionString of a
\* non-empty azureBlobParameters block that is absent, null or empty, which
\* it sets to the storage connection string.
C17_FrameOfRestore ==
    /\ pc = "restored" => (restored = Raised <=> NullInference(stored))
    /\ pc = "restored" /\ restored # Raised =>
          /\ \A p \in PathLeaves(stored, <<>>) :
                ~IsPlaceholder(p[2]) /\ ~FrameExempt(p[1]) =>
                    \/ p \in PathLeaves(restored, <<>>)
                    \/ p[1] = ConnPath /\ p[2] \in { Null, Str(<<>>) }
          /\ \A p \in PathLeaves(restored, <<>>) \ PathLeaves(stored, <<>>) :
                \/ FrameNew(p)
                \/ p[1] = ConnPath /\ p[2] = creds.storage_connection_string

\* a stored blob knowledge source with a live container name, a placeholder
\* key in its embedding model and no connectionString has been restored:
\* the key is replaced, the container name kept, the connection string set
C17_Witness ==
    /\ pc = "restored" /\ dir = "knowledge-sources"
    /\ Truthy(GetIn(stored, <<K_azureBlobParameters>>))
    /\ ~Has(GetIn(stored, <<K_azureBlobParameters>>), K_connectionString)
    /\ GetIn(restored, <<K_azureBlobParameters, K_connectionString>>)
          = creds.storage_connection_string
    /\ GetIn(stored, <<K_azureBlobParameters, K_containerName>>) = Str(S_container)
    /\ GetIn(restored, <<K_azureBlobParameters, K_containerName>>) = Str(S_container)
    /\ GetIn(stored, <<K_azureBlobParameters, K_ingestionParameters, K_embeddingModel,
                       K_azureOpenAIParameters, K_apiKey>>) = Str(REDACTED_PLACEHOLDER)
    /\ GetIn(restored, <<K_azureBlobParameters, K_ingestionParameters, K_embeddingModel,
                         K_azureOpenAIParameters, K_apiKey>>) = creds.openai_key

-----------------------------------------------------------------------------
(* Claims on the runs over the configuration store *)

\* d is a document the Sanitizer has written
IsSanitizerOutput(d) == \E d0 \in FileContents \ {Malformed} : d = sanitize(d0)

\* C11: a preview never writes a stored file, and the value it reports for a
\* file is true exactly when sanitize changes the document: true for
\* {"apiKey": "abc123"}, false for a document that is an output of sanitize
C11_PreviewReportsChange ==
    /\ [](dry_run =>
            \A i \in 1..Len(returned) :
                LET d == files[returned[i].path]
                IN  d # Malformed =>
                      /\ returned[i].value = (sanitize(d) # d)
                      /\ d = ApiKeyDoc => returned[i].value
                      /\ IsSanitizerOutput(d) => ~returned[i].value)
    /\ [][dry_run' => files' = files]_vars

\* a preview has visited the scenario document and its sanitized form: it
\* reported true for the first and false for the second
C11_Witness ==
    /\ pc = "swept" /\ dry_run
    /\ DOMAIN files = { <<"knowledge-sources", "a">>, <<"knowledge-sources", "b">> }
    /\ files[<<"knowledge-sources", "a">>] = ApiKeyDoc
    /\ files[<<"knowledge-sources", "b">>] = Dict(<< KV(K_apiKey, Str(REDACTED_PLACEHOLDER)) >>)
    /\ returned = << [path |-> <<"knowledge-sources", "a">>, value |-> TRUE],
                     [path |-> <<"knowledge-sources", "b">>, value |-> FALSE] >>

\* C12: a deploy that was rejected, by a non-success response or a failed
\* request, is the last deploy of the run, and the run has ended with
\* failure
C12_RejectEndsRun ==
    \A i \in 1..Len(puts) :
        ~puts[i].ok => i = Len(puts) /\ pc = "exited" /\ exit_code = 1

\* the first of two knowledge sources was rejected; the second was not sent
C12_Witness ==
    /\ pc = "exited"
    /\ Len(puts) = 1 /\ ~puts[1].ok /\ puts[1].response = [t |-> "exception"]
    /\ Len(todo) = 2 /\ puts[1].path = todo[1]
    /\ files[todo[2]] # Malformed

\* C13 as stated: a deploy is reported successful exactly when the status
\* is in 200..299, and every other status is reported as a failure with the
\* response body.
C13_Original ==
    \A i \in 1..Len(puts) :
        puts[i].response.t = "response" =>
            /\ puts[i].ok <=> (puts[i].response.status >= 200 /\ puts[i].response.status <= 299)
            /\ ~puts[i].ok => puts[i].logged = "status and body"

\* C13 as amended: a deploy is reported successful exactly when the status
\* is 200, 201 or 204; every other status is reported as a failure with the
\* status and the response body, and a request that got no response as a
\* failure with the error of the request.
C13_SuccessStatuses ==
    \A i \in 1..Len(puts) :
        IF puts[i].response.t = "response"
        THEN /\ puts[i].ok <=> puts[i].response.status \in {200, 201, 204}
             /\ ~puts[i].ok => puts[i].logged = "status and body"
        ELSE ~puts[i].ok /\ puts[i].logged = "Request failed"

\* a knowledge source was accepted with status 201 and a knowledge base
\* answered with status 202 was reported as failed
C13_Witness ==
    /\ Len(puts) = 2
    /\ puts[1].path[1] = "knowledge-sources" /\ puts[1].response.t = "response"
    /\ puts[1].response.status = 201 /\ puts[1].ok
    /\ puts[2].path[1] = "knowledge-bases" /\ puts[2].response.t = "response"
    /\ puts[2].response.status = 202 /\ ~puts[2].ok
    /\ puts[2].logged = "status and body"

MetadataKeys == { K_odata_context, K_odata_etag }

\* the keys of d below its top level
NestedKeys(d) == UNION { KeysOf(d.items[i].v) : i \in 1..Len(d.items) }

\* C18 as stated: no document given to a deploy call holds one of the two
\* metadata keys, at the top level or nested.
C18_Original ==
    \A i \in 1..Len(puts) : KeysOf(puts[i].doc) \cap MetadataKeys = {}

\* C18 as amended: no document given to a deploy call holds one of the two
\* metadata keys at its top level; below the top level it holds them where
\* the stored document does.
C18_TopLevelMetadataDropped ==
    \A i \in 1..Len(puts) :
        /\ ~Has(puts[i].doc, K_odata_context) /\ ~Has(puts[i].doc, K_odata_etag)
        /\ NestedKeys(puts[i].doc) \cap MetadataKeys
              = NestedKeys(files[puts[i].path]) \cap MetadataKeys

\* a knowledge source stored with the metadata keys at its top level and
\* the tag in its parameter block, and a document without them, were sent
C18_Witness ==
    /\ Len(puts) = 2
    /\ files[puts[1].path] = NestedODataSource
    /\ puts[1].path[1] = "knowledge-sources"
    /\ Has(GetIn(puts[1].doc, <<K_azureBlobParameters>>), K_odata_etag)
    /\ ~Has(puts[1].doc, K_odata_etag)
    /\ files[puts[2].path] = ApiKeyDoc /\ puts[2].doc = ApiKeyDoc

\* the files of the Restorer run, in the order of the run
RestoreOrder == Listing({"knowledge-sources"}) \o Listing({"knowledge-bases"})

\* the Sanitizer's half of C19: a file that does not parse is reported
\* False and left as it is, and the run visits every file
SanitizerSkipsMalformed ==
    /\ \A i \in 1..Len(returned) :
          files[returned[i].path] = Malformed => ~returned[i].value
    /\ pc = "swept" => Len(returned) = Len(Listing(SanitizedDirs))
    /\ pc = "swept" => total_count = Len(Listing(SanitizedDirs))

\* C19 as stated: in both runs a file that does not parse is skipped and
\* the run goes on; the file never makes the run abort.
C19_Original ==
    /\ SanitizerSkipsMalformed
    /\ \A i \in 1..Len(puts) : files[puts[i].path] # Malformed
    /\ ~(pc = "exited" /\ files[Head(todo)] = Malformed)

\* C19 as amended: the Sanitizer skips a file that does not parse and goes
\* on; the Restorer ends with failure at such a file: neither it nor any
\* file after it in the run is deployed, and the run does not complete.
C19_MalformedFile ==
    /\ SanitizerSkipsMalformed
    /\ \A i \in 1..Len(RestoreOrder) :
          files[RestoreOrder[i]] = Malformed =>
              /\ pc # "done"
              /\ \A j \in 1..Len(puts), k \in i..Len(RestoreOrder) :
                    puts[j].path # RestoreOrder[k]
              /\ pc = "exited" => exit_code = 1

\* the Sanitizer skipped a malformed file and rewrote the file after it;
\* the Restorer then ended at the malformed file with nothing deployed
C19_Witness ==
    /\ pc = "exited" /\ exit_code = 1 /\ puts = <<>>
    /\ <<"knowledge-sources", "a">> \in DOMAIN files
    /\ files[<<"knowledge-sources", "a">>] = Malformed
    /\ returned = << [path |-> <<"knowledge-sources", "a">>, value |-> FALSE],
                     [path |-> <<"knowledge-sources", "b">>, value |-> TRUE] >>
    /\ ~dry_run
    /\ todo = << <<"knowledge-sources", "a">>, <<"knowledge-sources", "b">> >>


\* the place of a file name in the ascending order of the names of the store
NameRank(p) == CHOOSE i \in 1..Len(SortedPaths) : SortedPaths[i] = p

\* C21: in a restore run every knowledge-source document is deployed before
\* any knowledge-base document, the documents of one kind are deployed in
\* ascending order of their file names, and no document is sent twice: the
\* deploy calls made so far are the first files of the sorted knowledge
\* sources followed by the sorted knowledge bases, one call for each.
C21_SourcesThenBasesInOrder ==
    /\ \A i, j \in 1..Len(puts) :
          i < j =>
              /\ puts[i].path # puts[j].path
              /\ puts[i].path[1] = "knowledge-bases" => puts[j].path[1] = "knowledge-bases"
              /\ puts[i].path[1] = puts[j].path[1] =>
                     NameRank(puts[i].path) < NameRank(puts[j].path)
    /\ \A i \in 1..Len(puts) :
          puts[i].path[1] = "knowledge-bases" =>
              \A p \in DOMAIN files :
                  p[1] = "knowledge-sources" =>
                      \E k \in 1..(i - 1) : puts[k].path = p /\ puts[k].ok
    /\ Len(puts) <= Len(RestoreOrder)
    /\ \A i \in 1..Len(puts) : puts[i].path = RestoreOrder[i]
    /\ \A i \in 1..(Len(puts) - 1) : puts[i].ok

\* two knowledge sources were deployed in the order of their names, or a
\* knowledge source and then a knowledge base, and the run completed
C21_Witness ==
    /\ pc = "done" /\ Len(puts) = 2
    /\ \/ /\ puts[1].path = <<"knowledge-sources", "a">>
          /\ puts[2].path = <<"knowledge-sources", "b">>
       \/ /\ puts[1].path = <<"knowledge-sources", "a">>
          /\ puts[2].path = <<"knowledge-bases", "a">>


\* the parameter block the resolver reads for an indexed kind
OwnParams(kind) ==
    CASE kind = "azureBlob"         -> K_azureBlobParameters
      [] kind = "indexedOneLake"    -> K_indexedOneLakeParameters
      [] kind = "indexedSharePoint" -> K_indexedSharePointParameters

IndexedKinds == { "azureBlob", "indexedOneLake", "indexedSharePoint" }

\* the parameter block of the kind is absent or null, or holds no
\* createdResources or a null one
NoCreatedBlock(d) ==
    ~IsDict(GetIn(d, <<OwnParams(KindOf(d)), <<"createdResources">>>>))

\* createdResources is present in the block of the kind, with a null value
NullCreatedBlock(d) ==
    LET params == GetIn(d, <<OwnParams(KindOf(d))>>)
    IN  /\ IsDict(params)
        /\ Has(params, <<"createdResources">>)
        /\ Get(params, <<"createdResources">>) = Null

\* C22: for every knowledge source of an indexed kind the resolver returns
\* a result of four fields without raising; where the parameter block of the
\* kind is absent or null, or its createdResources is absent or null, the
\* four names are absent.
C22_ResolverTotal ==
    pc = "resolved" /\ KindOf(ks) \in IndexedKinds =>
        /\ resources # Raised
        /\ DOMAIN resources = DOMAIN NoResources
        /\ NoCreatedBlock(ks) => resources = NoResources

\* what the resolver does: it raises exactly where createdResources is
\* present with a null value, and returns four absent names in the other
\* cases without a createdResources block
C22_RaisesOnNullCreated ==
    pc = "resolved" /\ KindOf(ks) \in IndexedKinds =>
        /\ resources = Raised <=> NullCreatedBlock(ks)
        /\ NoCreatedBlock(ks) /\ ~NullCreatedBlock(ks) => resources = NoResources

====
